---- MODULE Spec2Model ----
(***************************************************************************)
(* A model of drake's multibody/fem/fem_element.h: the CRTP base class     *)
(* FemElement<DerivedElement>, its public operations and the protected     *)
(* default kernels, together with a small catalogue of concrete elements.  *)
(*                                                                         *)
(* Scalars of type T are integers.  Forces and the gravity vector are held *)
(* in hundredths, so that the default gravity (0, 0, -9.81) is             *)
(* (0, 0, -981); scales, damping coefficients, weights and matrix entries  *)
(* are plain integers, and scale * M * g is again in hundredths.           *)
(***************************************************************************)
EXTENDS Integers, Sequences, FiniteSets, TLC

VARIABLES
    build,      \* [assert_armed |-> BOOLEAN]: whether DRAKE_ASSERT is compiled in
    element,    \* the FemElement under evaluation (NoElement before construction)
    data,       \* the Data the caller holds for this element
    buffer,     \* the output buffer the caller holds: [kind, val]
    call,       \* the record of the most recent call on the element
    ncalls,     \* calls made on `buffer` since the caller last wrote it
    pc,         \* "start", "ready", or "dead" once the process aborted or crashed
    given,      \* what callers have passed in: the constructor's arguments
                \* and the argument of the last set_gravity_vector
    shared,     \* the FemState the worker threads of a solver step read
    worker,     \* per worker thread: its element, Data, output buffers, the
                \* scalars it passed and the call it is to make next
    context,    \* the Context of a JacoCommandReceiver: its two input ports
                \* and its latch
    harness,    \* the test fixture around it: what state() last returned and
                \* how often the inputs were set
    xml,        \* an XML element, the vector a caller holds and the outcome of
                \* the last ParseVectorAttribute on them
    urdf,       \* a URDF document and the UrdfParser working through it
    uri         \* a file system, a package map and the last ResolveUri on them

femVars == <<build, element, data, buffer, call, ncalls, pc, given>>
parVars == <<shared, worker>>
jacoVars == <<context, harness>>
ioVars == <<jacoVars, xml, urdf, uri>>
vars == <<femVars, parVars, ioVars>>

----------------------------------------------------------------------------
(* Bounds of the model. *)

\* Number of nodes of the FEM model the elements belong to.
NumModelNodes == 3

\* Largest num_nodes of the traits classes drawn without regard to num_dofs.
MaxTraitNodes == 2

\* Number of worker threads evaluating elements in parallel.
NumWorkers == 2

\* Number of different measured positions fixed on the receiver's port.
NumMeasured == 3
\* Longest run of calls on one buffer before the caller rewrites it.
MaxCalls == 2

(* Program constants. *)

\* constexpr int kDim = 3 (ExtractElementDofs, AddScaledGravityForce).
kDim == 3
\* Vector3<T> gravity_{0, 0, -9.81}, in hundredths.
kGravityZ == -981

----------------------------------------------------------------------------
(* Fixed-size Eigen vectors and matrices, indexed from 0. *)

Idx(n) == 0 .. (n - 1)

\* Vector3<T>, with components 0, 1, 2.
Vector3(a, b, c) == [k \in Idx(3) |-> IF k = 0 THEN a ELSE IF k = 1 THEN b ELSE c]

ZeroVector(n) == [i \in Idx(n) |-> 0]
ZeroMatrix(n) == [i \in Idx(n) |-> [j \in Idx(n) |-> 0]]

VecAdd(u, v) == [i \in DOMAIN u |-> u[i] + v[i]]
VecScale(s, v) == [i \in DOMAIN v |-> s * v[i]]
MatAdd(A, B) == [i \in DOMAIN A |-> [j \in DOMAIN A[i] |-> A[i][j] + B[i][j]]]
MatScale(s, A) == [i \in DOMAIN A |-> [j \in DOMAIN A[i] |-> s * A[i][j]]]

RECURSIVE Dot(_, _, _)
Dot(row, v, n) == IF n = 0 THEN 0 ELSE Dot(row, v, n - 1) + row[n - 1] * v[n - 1]

MatVec(A, v) == [i \in DOMAIN A |-> Dot(A[i], v, Cardinality(DOMAIN v))]

----------------------------------------------------------------------------
(* Strings are sequences of tokens, so that "contains" is decidable. *)

RECURSIVE Concat(_)
Concat(parts) == IF parts = <<>> THEN <<>> ELSE Head(parts) \o Concat(Tail(parts))

Contains(s, t) ==
    \E k \in 0 .. (Len(s) - Len(t)) : \A i \in 1 .. Len(t) : s[k + i] = t[i]

----------------------------------------------------------------------------
(* Concrete element types.  A type is what FemElementTraits<Element> and   *)
(* the class Element declare: its name, the trait constants, and the set   *)
(* of Do... kernels the class itself defines (the rest are inherited from  *)
(* FemElement).                                                            *)

RequiredKernels ==
    {"DoComputeData", "DoCalcResidual", "DoAddScaledStiffnessMatrix",
     "DoAddScaledMassMatrix"}

\* FemElementTraits<Element>: num_nodes and num_dofs are two constants of
\* the traits class, each written by the author of the concrete element.
ElementTraits(name, n, dofs, kernels) ==
    [name |-> name, num_nodes |-> n, num_dofs |-> dofs, kernels |-> kernels]

\* The traits of an element with kDim dofs per node.
ElementType(name, n, kernels) == ElementTraits(name, n, kDim * n, kernels)

\* Elements that define every required kernel and no external-force hook.
DummyElements ==
    {ElementType(<<"DummyElement", ToString(n)>>, n, RequiredKernels) : n \in {1, 2, 3}}

\* An element that also defines the optional DoAddScaledExternalForce hook.
ForceElement ==
    ElementType(<<"ForceElement">>, 1,
                RequiredKernels \cup {"DoAddScaledExternalForce"})

\* Elements that omit one required kernel each.
IncompleteElements ==
    {ElementType(<<"ElementWithout", k>>, 1, RequiredKernels \ {k}) :
        k \in RequiredKernels}

ElementTypes == DummyElements \cup {ForceElement} \cup IncompleteElements

\* Every traits class that instantiates FemElement: nothing in FemElement
\* relates num_dofs to num_nodes.
TraitElements ==
    {ElementTraits(<<"TraitElement", ToString(n), ToString(dofs)>>, n, dofs,
                   RequiredKernels) :
        n \in 1..MaxTraitNodes, dofs \in 1..(kDim * MaxTraitNodes + 1)}

\* TypeSafeIndex: a default-constructed index is invalid (negative).
InvalidIndex == 0 - 1
is_valid(index) == index >= 0

\* The node indices and damping models the elements are built with: the
\* first nodes of the model in order, or the nodes from 2 on, wrapping round.
\* A two-node element may also be given the same node twice.
BuildChoices(n) ==
    {[node_indices |-> [i \in Idx(n) |-> i],
      constitutive_model |-> "LinearModel",
      damping_model |-> [mass_coeff_alpha |-> 0, stiffness_coeff_beta |-> 1]],
     [node_indices |-> [i \in Idx(n) |-> (i + 2) % NumModelNodes],
      constitutive_model |-> "CorotatedModel",
      damping_model |-> [mass_coeff_alpha |-> 2, stiffness_coeff_beta |-> 3]]}
    \cup {[node_indices |-> [i \in Idx(n) |-> 1],
           constitutive_model |-> "LinearModel",
           damping_model |-> [mass_coeff_alpha |-> 1, stiffness_coeff_beta |-> 0]] :
             m \in {n} \cap {2}}

\* FemState<T>: the generalized positions of the model, one kDim block per
\* node; block b holds 10*b + 1, 10*b + 2, 10*b + 3.
StateOfSize(nodes) ==
    [q |-> [k \in Idx(kDim * nodes) |-> 10 * (k \div kDim) + (k % kDim) + 1]]

FemStates == {StateOfSize(NumModelNodes), StateOfSize(1)}

Size(v) == Cardinality(DOMAIN v)

----------------------------------------------------------------------------
(* Execution frames.  An operation runs on a frame: the build it was       *)
(* compiled in, how undefined behaviour turns out in this run, the status  *)
(* of the call so far, the kernels invoked so far, the exception message,  *)
(* and the caller's output argument (a pointer, possibly null, and the     *)
(* value of the pointee).                                                  *)

UBOutcomes == {"segv", "run_on"}

Frame(armed, ub, null, val) ==
    [armed |-> armed, ub |-> ub, status |-> "ok", calls |-> <<>>,
     msg |-> <<>>, null |-> null, val |-> val]

\* DRAKE_DEMAND(cond): always compiled in; aborts the process on failure.
DRAKE_DEMAND(cond, fr) ==
    IF fr.status = "ok" /\ ~cond THEN [fr EXCEPT !.status = "abort"] ELSE fr

\* DRAKE_ASSERT(cond): DRAKE_DEMAND in builds that arm it, nothing otherwise.
DRAKE_ASSERT(cond, fr) ==
    IF fr.armed THEN DRAKE_DEMAND(cond, fr) ELSE fr

\* A kernel (a Do... method) is entered.
Enter(fr, kernel) ==
    IF fr.status = "ok" THEN [fr EXCEPT !.calls = Append(@, kernel)] ELSE fr

\* A write through the output pointer.  Through a null pointer it is
\* undefined behaviour: the process crashes, or the write is lost.
Store(fr, val) ==
    IF fr.status # "ok" THEN fr
    ELSE IF fr.null
         THEN (IF fr.ub = "segv" THEN [fr EXCEPT !.status = "segv"] ELSE fr)
         ELSE [fr EXCEPT !.val = val]

\* NiceTypeName::Get(*this) inside FemElement<DerivedElement>: the class is
\* not polymorphic, so the name is that of the static type.
NiceTypeName(e) ==
    <<"drake::multibody::fem::internal::FemElement<">> \o e.type.name \o <<">">>

ThrowIfNotImplementedNoMethod(e, source_method, fr) ==
    IF fr.status # "ok" THEN fr
    ELSE [fr EXCEPT !.status = "throw",
                    !.msg = Concat(<< <<"The DerivedElement from ">>,
                                      NiceTypeName(e),
                                      <<" must provide an implementation.">> >>)]

ThrowIfNotImplemented(e, source_method, fr) ==
    IF fr.status # "ok" THEN fr
    ELSE [fr EXCEPT !.status = "throw",
                    !.msg = Concat(<< <<"The DerivedElement from ">>,
                                      NiceTypeName(e),
                                      <<" must provide an implementation for ">>,
                                      source_method,
                                      <<"().">> >>)]

----------------------------------------------------------------------------
(* ExtractElementDofs. *)

\* A read of state_dofs[k].  Outside the vector it is undefined behaviour:
\* the process crashes, or whatever lies there is read.
StrayValue == 0 - 7777

ReadDof(state_dofs, k, fr) ==
    IF k \in DOMAIN state_dofs THEN state_dofs[k] ELSE StrayValue

ReadOk(state_dofs, k, fr) ==
    k \in DOMAIN state_dofs \/ fr.ub # "segv"

CopySegmentFromLocal(node_indices, state_dofs, i, fr) ==
    LET a == DRAKE_ASSERT(is_valid(node_indices[i])
                          /\ (node_indices[i] + 1) * kDim <= Size(state_dofs), fr)
        from == i * kDim
    IN  IF a.status # "ok" THEN a
        ELSE IF \E c \in Idx(kDim) : ~ReadOk(state_dofs, from + c, a)
             THEN [a EXCEPT !.status = "segv"]
             ELSE [a EXCEPT !.val =
                      [k \in DOMAIN a.val |->
                          IF k \in (i * kDim) .. (i * kDim + kDim - 1)
                          THEN ReadDof(state_dofs, from + (k - i * kDim), a)
                          ELSE a.val[k]]]

CopySegmentLooseBound(node_indices, state_dofs, i, fr) ==
    LET a == DRAKE_ASSERT(is_valid(node_indices[i])
                          /\ node_indices[i] * kDim <= Size(state_dofs), fr)
        from == node_indices[i] * kDim
    IN  IF a.status # "ok" THEN a
        ELSE IF \E c \in Idx(kDim) : ~ReadOk(state_dofs, from + c, a)
             THEN [a EXCEPT !.status = "segv"]
             ELSE [a EXCEPT !.val =
                      [k \in DOMAIN a.val |->
                          IF k \in (i * kDim) .. (i * kDim + kDim - 1)
                          THEN ReadDof(state_dofs, from + (k - i * kDim), a)
                          ELSE a.val[k]]]

\* One turn of the loop: the bounds assertion, then the copy of one segment.
CopySegment(node_indices, state_dofs, i, fr) ==
    LET a == DRAKE_ASSERT(is_valid(node_indices[i])
                          /\ (node_indices[i] + 1) * kDim <= Size(state_dofs), fr)
        from == node_indices[i] * kDim
    IN  IF a.status # "ok" THEN a
        ELSE IF \E c \in Idx(kDim) : ~ReadOk(state_dofs, from + c, a)
             THEN [a EXCEPT !.status = "segv"]
             ELSE [a EXCEPT !.val =
                      [k \in DOMAIN a.val |->
                          IF k \in (i * kDim) .. (i * kDim + kDim - 1)
                          THEN ReadDof(state_dofs, from + (k - i * kDim), a)
                          ELSE a.val[k]]]

RECURSIVE ExtractLoop(_, _, _, _)
ExtractLoop(node_indices, state_dofs, i, fr) ==
    IF i = Size(node_indices) \/ fr.status # "ok" THEN fr
    ELSE ExtractLoop(node_indices, state_dofs, i + 1,
                     CopySegment(node_indices, state_dofs, i, fr))

\* static ExtractElementDofs(node_indices, state_dofs); the frame's value is
\* the vector returned.
ExtractElementDofs(node_indices, state_dofs, fr) ==
    ExtractLoop(node_indices, state_dofs, 0,
                [fr EXCEPT !.null = FALSE,
                           !.val = ZeroVector(kDim * Size(node_indices))])

\* The member form.
ExtractElementDofsOf(e, state_dofs, fr) ==
    ExtractElementDofs(e.node_indices, state_dofs, fr)

----------------------------------------------------------------------------
(* The kernels of the concrete elements.  Data holds the element's own     *)
(* positions; the local matrices and the residual are functions of it.     *)

DefaultData(e) == [x |-> ZeroVector(e.type.num_dofs)]

LocalStiffness(e, d) ==
    [i \in Idx(e.type.num_dofs) |-> [j \in Idx(e.type.num_dofs) |->
        (IF i = j THEN 2 ELSE 0) + d.x[j] - i]]

LocalMass(e, d) ==
    [i \in Idx(e.type.num_dofs) |-> [j \in Idx(e.type.num_dofs) |->
        IF i = j THEN 1 ELSE d.x[i] * (j + 1)]]

LocalResidual(e, d) == [i \in Idx(e.type.num_dofs) |-> d.x[i] + i + 1]

LocalExtraForce(e, d) == [i \in Idx(e.type.num_dofs) |-> 700 + i]

Derived_DoComputeData(e, state, fr) ==
    LET f == Enter(fr, "Derived::DoComputeData")
        x == ExtractElementDofsOf(e, state.q, f)
    IN  IF x.status # "ok" THEN [x EXCEPT !.val = fr.val]
        ELSE [x EXCEPT !.val = [x |-> x.val]]

Derived_DoCalcResidual(e, d, fr) ==
    LET f == Enter(fr, "Derived::DoCalcResidual")
    IN  Store(f, VecAdd(f.val, LocalResidual(e, d)))

Derived_DoAddScaledStiffnessMatrix(e, d, scale, fr) ==
    LET f == Enter(fr, "Derived::DoAddScaledStiffnessMatrix")
    IN  Store(f, MatAdd(f.val, MatScale(scale, LocalStiffness(e, d))))

Derived_DoAddScaledMassMatrix(e, d, scale, fr) ==
    LET f == Enter(fr, "Derived::DoAddScaledMassMatrix")
    IN  Store(f, MatAdd(f.val, MatScale(scale, LocalMass(e, d))))

Derived_DoAddScaledExternalForce(e, d, scale, fr) ==
    LET f == Enter(fr, "Derived::DoAddScaledExternalForce")
    IN  Store(f, VecAdd(f.val, VecScale(scale, LocalExtraForce(e, d))))

----------------------------------------------------------------------------
(* The kernels FemElement itself defines: what a concrete element that     *)
(* does not define its own inherits.                                       *)

FemElement_DoComputeData(e, state, fr) ==
    ThrowIfNotImplemented(e, <<"Do", "ComputeData">>,
                          Enter(fr, "FemElement::DoComputeData"))

FemElement_DoCalcResidual(e, d, fr) ==
    ThrowIfNotImplemented(e, <<"Do", "CalcResidual">>,
                          Enter(fr, "FemElement::DoCalcResidual"))

FemElement_DoAddScaledStiffnessMatrix(e, d, scale, fr) ==
    ThrowIfNotImplemented(e, <<"Do", "AddScaledStiffnessMatrix">>,
                          Enter(fr, "FemElement::DoAddScaledStiffnessMatrix"))

FemElement_DoAddScaledMassMatrix(e, d, scale, fr) ==
    ThrowIfNotImplemented(e, <<"Do", "AddScaledMassMatrix">>,
                          Enter(fr, "FemElement::DoAddScaledMassMatrix"))

\* Default implementation is no-op.
FemElement_DoAddScaledExternalForce(e, d, scale, fr) ==
    Enter(fr, "FemElement::DoAddScaledExternalForce")

\* static_cast<const DerivedElement*>(this)->kernel(...): the concrete
\* element's own definition when it has one, FemElement's otherwise.
Defines(e, kernel) == kernel \in e.type.kernels

----------------------------------------------------------------------------
(* The public operations of FemElement.  Each takes the frame holding the  *)
(* caller's output argument and returns the frame the call ends in.        *)

\* Data ComputeData(const FemState<T>& state) const
ComputeData(e, state, fr) ==
    IF Defines(e, "DoComputeData")
    THEN Derived_DoComputeData(e, state, fr)
    ELSE FemElement_DoComputeData(e, state, fr)

AddScaledStiffnessMatrixZeroing(e, d, scale, fr) ==
    LET a == Store(DRAKE_ASSERT(~fr.null, fr), ZeroMatrix(e.type.num_dofs))
    IN  IF Defines(e, "DoAddScaledStiffnessMatrix")
        THEN Derived_DoAddScaledStiffnessMatrix(e, d, scale, a)
        ELSE FemElement_DoAddScaledStiffnessMatrix(e, d, scale, a)

AddScaledStiffnessMatrixUnscaled(e, d, scale, fr) ==
    LET a == DRAKE_ASSERT(~fr.null, fr)
    IN  IF Defines(e, "DoAddScaledStiffnessMatrix")
        THEN Derived_DoAddScaledStiffnessMatrix(e, d, 1, a)
        ELSE FemElement_DoAddScaledStiffnessMatrix(e, d, 1, a)

AddScaledStiffnessMatrix(e, d, scale, fr) ==
    LET a == DRAKE_ASSERT(~fr.null, fr)
    IN  IF Defines(e, "DoAddScaledStiffnessMatrix")
        THEN Derived_DoAddScaledStiffnessMatrix(e, d, scale, a)
        ELSE FemElement_DoAddScaledStiffnessMatrix(e, d, scale, a)

AddScaledMassMatrixUnscaled(e, d, scale, fr) ==
    LET a == DRAKE_ASSERT(~fr.null, fr)
    IN  IF Defines(e, "DoAddScaledMassMatrix")
        THEN Derived_DoAddScaledMassMatrix(e, d, 1, a)
        ELSE FemElement_DoAddScaledMassMatrix(e, d, 1, a)

AddScaledMassMatrix(e, d, scale, fr) ==
    LET a == DRAKE_ASSERT(~fr.null, fr)
    IN  IF Defines(e, "DoAddScaledMassMatrix")
        THEN Derived_DoAddScaledMassMatrix(e, d, scale, a)
        ELSE FemElement_DoAddScaledMassMatrix(e, d, scale, a)

AddScaledDampingMatrixStiffnessOnly(e, d, scale, fr) ==
    LET a == DRAKE_ASSERT(~fr.null, fr)
        beta == e.damping_model.stiffness_coeff_beta
    IN  AddScaledStiffnessMatrix(e, d, scale * beta, a)

AddScaledDampingMatrix(e, d, scale, fr) ==
    LET a == DRAKE_ASSERT(~fr.null, fr)
        alpha == e.damping_model.mass_coeff_alpha
        beta == e.damping_model.stiffness_coeff_beta
        m == AddScaledMassMatrix(e, d, scale * alpha, a)
    IN  AddScaledStiffnessMatrix(e, d, scale * beta, m)

CalcTangentMatrixNoZero(e, d, weights, fr) ==
    LET a == DRAKE_DEMAND(~fr.null, fr)
        k == AddScaledStiffnessMatrix(
                 e, d, weights[0] + weights[1] * e.damping_model.stiffness_coeff_beta, a)
    IN  AddScaledMassMatrix(
            e, d, weights[2] + weights[1] * e.damping_model.mass_coeff_alpha, k)

CalcTangentMatrixSwapped(e, d, weights, fr) ==
    LET a == DRAKE_DEMAND(~fr.null, fr)
        z == Store(a, ZeroMatrix(e.type.num_dofs))
        k == AddScaledStiffnessMatrix(
                 e, d, weights[0] + weights[1] * e.damping_model.mass_coeff_alpha, z)
    IN  AddScaledMassMatrix(
            e, d, weights[2] + weights[1] * e.damping_model.stiffness_coeff_beta, k)

CalcTangentMatrixAsserting(e, d, weights, fr) ==
    LET a == DRAKE_ASSERT(~fr.null, fr)
        z == Store(a, ZeroMatrix(e.type.num_dofs))
        k == AddScaledStiffnessMatrix(
                 e, d, weights[0] + weights[1] * e.damping_model.stiffness_coeff_beta, z)
    IN  AddScaledMassMatrix(
            e, d, weights[2] + weights[1] * e.damping_model.mass_coeff_alpha, k)

\* weights is (w0, w1, w2), a Vector3.
CalcTangentMatrix(e, d, weights, fr) ==
    LET a == DRAKE_DEMAND(~fr.null, fr)
        z == Store(a, ZeroMatrix(e.type.num_dofs))
        k == AddScaledStiffnessMatrix(
                 e, d, weights[0] + weights[1] * e.damping_model.stiffness_coeff_beta, z)
    IN  AddScaledMassMatrix(
            e, d, weights[2] + weights[1] * e.damping_model.mass_coeff_alpha, k)

CalcResidualNoZero(e, d, fr) ==
    LET a == DRAKE_ASSERT(~fr.null, fr)
    IN  IF Defines(e, "DoCalcResidual")
        THEN Derived_DoCalcResidual(e, d, a)
        ELSE FemElement_DoCalcResidual(e, d, a)

CalcResidualKernelFirst(e, d, fr) ==
    LET a == DRAKE_ASSERT(~fr.null, fr)
    IN  IF Defines(e, "DoCalcResidual")
        THEN Derived_DoCalcResidual(e, d, Store(a, ZeroVector(e.type.num_dofs)))
        ELSE FemElement_DoCalcResidual(e, d, a)

CalcResidual(e, d, fr) ==
    LET a == DRAKE_ASSERT(~fr.null, fr)
        z == Store(a, ZeroVector(e.type.num_dofs))
    IN  IF Defines(e, "DoCalcResidual")
        THEN Derived_DoCalcResidual(e, d, z)
        ELSE FemElement_DoCalcResidual(e, d, z)

\* The gravity vector stacked once per node.
StackedGravity(e) ==
    [k \in Idx(e.type.num_dofs) |->
        IF k < kDim * e.type.num_nodes THEN e.gravity[k % kDim] ELSE StrayValue]

AddScaledGravityForceScaledMass(e, d, scale, fr) ==
    LET m == AddScaledMassMatrix(
                 e, d, scale,
                 [fr EXCEPT !.null = FALSE, !.val = ZeroMatrix(e.type.num_dofs)])
        back == [m EXCEPT !.null = fr.null, !.val = fr.val]
    IN  Store(back,
              VecAdd(fr.val,
                     VecScale(scale, MatVec(m.val, StackedGravity(e)))))

\* stacked_gravity.segment<kDim>(kDim * i) for i < num_nodes lies outside
\* the num_dofs entries of stacked_gravity when kDim * num_nodes > num_dofs:
\* Eigen's own assertion aborts where assertions are compiled in, and the
\* write is undefined behaviour elsewhere.
WriteStackedGravity(e, fr) ==
    IF fr.status # "ok" \/ kDim * e.type.num_nodes <= e.type.num_dofs THEN fr
    ELSE IF fr.armed THEN [fr EXCEPT !.status = "abort"]
    ELSE IF fr.ub = "segv" THEN [fr EXCEPT !.status = "segv"]
    ELSE fr

AddScaledGravityForceDefaultGravity(e, d, scale, fr) ==
    LET m == AddScaledMassMatrix(
                 e, d, 1,
                 [fr EXCEPT !.null = FALSE, !.val = ZeroMatrix(e.type.num_dofs)])
        back == [m EXCEPT !.null = fr.null, !.val = fr.val]
    IN  Store(back,
              VecAdd(fr.val,
                     VecScale(scale,
                              MatVec(m.val,
                                     [k \in Idx(e.type.num_dofs) |->
                                         Vector3(0, 0, kGravityZ)[k % kDim]]))))

\* The local mass_matrix is a zeroed temporary of the callee.
AddScaledGravityForce(e, d, scale, fr) ==
    LET m == AddScaledMassMatrix(
                 e, d, 1,
                 [fr EXCEPT !.null = FALSE, !.val = ZeroMatrix(e.type.num_dofs)])
        back == WriteStackedGravity(e, [m EXCEPT !.null = fr.null, !.val = fr.val])
    IN  Store(back,
              VecAdd(fr.val,
                     VecScale(scale, MatVec(m.val, StackedGravity(e)))))

\* DoAddScaledExternalForce is called on FemElement itself, not through
\* static_cast<const DerivedElement*>(this).
AddScaledExternalForce(e, d, scale, fr) ==
    LET a == DRAKE_ASSERT(~fr.null, fr)
        g == AddScaledGravityForce(e, d, scale, a)
    IN  FemElement_DoAddScaledExternalForce(e, d, scale, g)

\* FemElement(element_index, node_indices, constitutive_model, damping_model);
\* the frame's value is the element constructed.
FemElementReversedNodes(type, element_index, node_indices, constitutive_model, damping_model, fr) ==
    LET a == DRAKE_ASSERT(is_valid(element_index), fr)
        b == DRAKE_ASSERT(\A i \in DOMAIN node_indices : is_valid(node_indices[i]), a)
    IN  IF b.status # "ok" THEN b
        ELSE [b EXCEPT !.val =
                 [type |-> type,
                  element_index |-> element_index,
                  node_indices |->
                      [i \in DOMAIN node_indices |->
                          node_indices[Size(node_indices) - 1 - i]],
                  constitutive_model |-> constitutive_model,
                  damping_model |-> damping_model,
                  gravity |-> Vector3(0, 0, kGravityZ)]]

FemElementIndexOnly(type, element_index, node_indices, constitutive_model, damping_model, fr) ==
    LET a == DRAKE_ASSERT(is_valid(element_index), fr)
    IN  IF a.status # "ok" THEN a
        ELSE [a EXCEPT !.val =
                 [type |-> type,
                  element_index |-> element_index,
                  node_indices |-> node_indices,
                  constitutive_model |-> constitutive_model,
                  damping_model |-> damping_model,
                  gravity |-> Vector3(0, 0, kGravityZ)]]

FemElement(type, element_index, node_indices, constitutive_model, damping_model, fr) ==
    LET a == DRAKE_ASSERT(is_valid(element_index), fr)
        b == DRAKE_ASSERT(\A i \in DOMAIN node_indices : is_valid(node_indices[i]), a)
    IN  IF b.status # "ok" THEN b
        ELSE [b EXCEPT !.val =
                 [type |-> type,
                  element_index |-> element_index,
                  node_indices |-> node_indices,
                  constitutive_model |-> constitutive_model,
                  damping_model |-> damping_model,
                  gravity |-> Vector3(0, 0, kGravityZ)]]

\* const std::array<NodeIndex, num_nodes>& node_indices() const
node_indices_of(e) == e.node_indices

\* ElementIndex element_index() const
element_index_of(e) == e.element_index

\* const Vector3<T>& gravity_vector() const
gravity_vector(e) == e.gravity

set_gravity_vector_dropped(e, gravity) == e

set_gravity_vector(e, gravity) == [e EXCEPT !.gravity = gravity]

----------------------------------------------------------------------------
(* The caller: the inputs it draws and the state machine of its calls.     *)

Scales == {0 - 1, 0, 1, 2}

\* A scale and whether the output pointer passed with it is null.
ScaleArgs == {<<s, FALSE>> : s \in Scales} \cup {<<2, TRUE>>}

WeightChoices ==
    {Vector3(1, 0, 0), Vector3(0, 1, 0), Vector3(0, 0, 1), Vector3(2, 3, 0 - 1)}

WeightArgs == {<<w, FALSE>> : w \in WeightChoices} \cup {<<Vector3(1, 0, 0), TRUE>>}

GravityChoices == {Vector3(100, 0, 0 - 200)}

VectorSeeds(n) == {ZeroVector(n), [i \in Idx(n) |-> 5 - i]}

MatrixSeeds(n) ==
    {ZeroMatrix(n), [i \in Idx(n) |-> [j \in Idx(n) |-> 3 * i - j + 1]]}

NoCall ==
    [op |-> "none", args |-> <<>>, null |-> FALSE, pre |-> <<>>,
     status |-> "ok", calls |-> <<>>, msg |-> <<>>, ret |-> <<>>]

\* No receiver has been created.
JacoIdle == context = <<>> /\ harness = <<>>

\* No document is being read and no URI resolved.
XmlIdle == xml = <<>>
UrdfIdle == urdf = <<>>
UriIdle == uri = <<>>

IoIdle == JacoIdle /\ XmlIdle /\ UrdfIdle /\ UriIdle

\* No element has been constructed and no worker started.
FemIdle ==
    /\ build \in [assert_armed : BOOLEAN]
    /\ element = [constructed |-> FALSE]
    /\ data = [x |-> <<>>]
    /\ buffer = [kind |-> "none", val |-> <<>>]
    /\ call = NoCall
    /\ ncalls = 0
    /\ pc = "start"
    /\ given = [constructed |-> FALSE]
    /\ shared = [q |-> <<>>]
    /\ worker = <<>>

Init ==
    /\ build \in [assert_armed : BOOLEAN]
    /\ element = [constructed |-> FALSE]
    /\ data = [x |-> <<>>]
    /\ buffer = [kind |-> "none", val |-> <<>>]
    /\ call = NoCall
    /\ ncalls = 0
    /\ pc = "start"
    /\ given = [constructed |-> FALSE]
    /\ shared = [q |-> <<>>]
    /\ worker = <<>>
    /\ IoIdle

Fatal(fr) == fr.status \in {"abort", "segv"}

\* The external builder constructs the element; the caller default-
\* constructs a Data for it.
ConstructOf(types) ==
    /\ pc = "start"
    /\ \E type \in types :
       \E choice \in BuildChoices(type.num_nodes) :
       \E bad \in {"none", "element_index", "node_indices"} :
         LET element_index == IF bad = "element_index" THEN InvalidIndex ELSE 0
             node_indices ==
                 IF bad = "node_indices"
                 THEN [choice.node_indices EXCEPT ![0] = InvalidIndex]
                 ELSE choice.node_indices
             fr == FemElement(type, element_index, node_indices,
                              choice.constitutive_model, choice.damping_model,
                              Frame(build.assert_armed, "segv", FALSE, element))
         IN  /\ bad # "none" =>
                  (type.num_nodes = 1 /\ type.kernels = RequiredKernels
                   /\ choice.node_indices[0] = 0)
             /\ type.kernels # RequiredKernels => choice.node_indices[0] # 0
             /\ element' = fr.val
             /\ data' = IF Fatal(fr) THEN data ELSE DefaultData(fr.val)
             /\ pc' = IF Fatal(fr) THEN "dead" ELSE "ready"
             /\ call' = [NoCall EXCEPT !.op = "FemElement", !.status = fr.status,
                                       !.args = <<element_index, node_indices>>]
             /\ given' = [constructed |-> TRUE,
                          element_index |-> element_index,
                          node_indices |-> node_indices,
                          constitutive_model |-> choice.constitutive_model,
                          damping_model |-> choice.damping_model,
                          gravity_set |-> FALSE,
                          gravity |-> <<>>]
    /\ UNCHANGED <<build, buffer, ncalls, parVars, ioVars>>

Construct == ConstructOf(ElementTypes)

\* The builder instantiates FemElement with any traits class.
ConstructAnyTraits == ConstructOf(TraitElements)

\* The caller writes its output buffer: a residual/force vector or a matrix.
WriteBuffer ==
    /\ pc = "ready"
    /\ \/ \E v \in VectorSeeds(element.type.num_dofs) :
            buffer' = [kind |-> "vector", val |-> v]
       \/ \E m \in MatrixSeeds(element.type.num_dofs) :
            buffer' = [kind |-> "matrix", val |-> m]
    /\ ncalls' = 0
    /\ call' = NoCall
    /\ UNCHANGED <<build, element, data, pc, given, parVars, ioVars>>

\* What a call on the caller's buffer leaves behind.
Returned(op, args, null, fr) ==
    /\ call' = [op |-> op, args |-> args, null |-> null, pre |-> buffer.val,
                status |-> fr.status, calls |-> fr.calls, msg |-> fr.msg,
                ret |-> <<>>]
    /\ buffer' = [buffer EXCEPT !.val = fr.val]
    /\ ncalls' = ncalls + 1
    /\ pc' = IF Fatal(fr) THEN "dead" ELSE "ready"
    /\ UNCHANGED <<build, element, data, given, parVars, ioVars>>

CanCall(kind) == pc = "ready" /\ buffer.kind = kind /\ ncalls < MaxCalls

CallComputeData ==
    /\ pc = "ready" /\ ncalls = 0
    /\ \E state \in FemStates, ub \in UBOutcomes :
         LET fr == ComputeData(element, state,
                               Frame(build.assert_armed, ub, FALSE, data))
         IN  /\ data' = fr.val
             /\ call' = [NoCall EXCEPT !.op = "ComputeData", !.args = state,
                                       !.pre = data, !.status = fr.status,
                                       !.calls = fr.calls, !.msg = fr.msg,
                                       !.ret = fr.val]
             /\ pc' = IF Fatal(fr) THEN "dead" ELSE "ready"
    /\ UNCHANGED <<build, element, buffer, ncalls, given, parVars, ioVars>>

CallExtractElementDofs ==
    /\ pc = "ready" /\ ncalls = 0
    /\ \E state \in FemStates, ub \in UBOutcomes :
         LET fr == ExtractElementDofsOf(element, state.q,
                                        Frame(build.assert_armed, ub, FALSE, <<>>))
         IN  /\ call' = [NoCall EXCEPT !.op = "ExtractElementDofs",
                                       !.args = state, !.status = fr.status,
                                       !.ret = fr.val]
             /\ pc' = IF Fatal(fr) THEN "dead" ELSE "ready"
    /\ UNCHANGED <<build, element, data, buffer, ncalls, given, parVars, ioVars>>

CallSetGravityVector ==
    /\ pc = "ready"
    /\ \E g \in GravityChoices :
         /\ element' = set_gravity_vector(element, g)
         /\ call' = [NoCall EXCEPT !.op = "set_gravity_vector", !.args = g,
                                   !.pre = element.gravity]
         /\ given' = [given EXCEPT !.gravity_set = TRUE, !.gravity = g]
    /\ UNCHANGED <<build, data, buffer, ncalls, pc, parVars, ioVars>>

CallCalcResidual ==
    /\ CanCall("vector")
    /\ \E null \in BOOLEAN, ub \in UBOutcomes :
         Returned("CalcResidual", <<>>, null,
                  CalcResidual(element, data,
                               Frame(build.assert_armed, ub, null, buffer.val)))

CallAddScaledExternalForce ==
    /\ CanCall("vector")
    /\ \E arg \in ScaleArgs, ub \in UBOutcomes :
         Returned("AddScaledExternalForce", arg[1], arg[2],
                  AddScaledExternalForce(element, data, arg[1],
                               Frame(build.assert_armed, ub, arg[2], buffer.val)))

CallCalcTangentMatrix ==
    /\ CanCall("matrix")
    /\ \E arg \in WeightArgs, ub \in UBOutcomes :
         Returned("CalcTangentMatrix", arg[1], arg[2],
                  CalcTangentMatrix(element, data, arg[1],
                               Frame(build.assert_armed, ub, arg[2], buffer.val)))

CallAddScaledStiffnessMatrix ==
    /\ CanCall("matrix")
    /\ \E arg \in ScaleArgs, ub \in UBOutcomes :
         Returned("AddScaledStiffnessMatrix", arg[1], arg[2],
                  AddScaledStiffnessMatrix(element, data, arg[1],
                               Frame(build.assert_armed, ub, arg[2], buffer.val)))

CallAddScaledMassMatrix ==
    /\ CanCall("matrix")
    /\ \E arg \in ScaleArgs, ub \in UBOutcomes :
         Returned("AddScaledMassMatrix", arg[1], arg[2],
                  AddScaledMassMatrix(element, data, arg[1],
                               Frame(build.assert_armed, ub, arg[2], buffer.val)))

CallAddScaledDampingMatrix ==
    /\ CanCall("matrix")
    /\ \E arg \in ScaleArgs, ub \in UBOutcomes :
         Returned("AddScaledDampingMatrix", arg[1], arg[2],
                  AddScaledDampingMatrix(element, data, arg[1],
                               Frame(build.assert_armed, ub, arg[2], buffer.val)))

Next ==
    \/ Construct
    \/ WriteBuffer
    \/ CallComputeData
    \/ CallExtractElementDofs
    \/ CallSetGravityVector
    \/ CallCalcResidual
    \/ CallAddScaledExternalForce
    \/ CallCalcTangentMatrix
    \/ CallAddScaledStiffnessMatrix
    \/ CallAddScaledMassMatrix
    \/ CallAddScaledDampingMatrix

Spec == Init /\ [][Next]_vars

\* The operations whose sizes come from the traits, on an element of any
\* traits class.
NextTraits ==
    \/ ConstructAnyTraits
    \/ WriteBuffer
    \/ CallExtractElementDofs
    \/ CallSetGravityVector
    \/ CallCalcResidual
    \/ CallAddScaledExternalForce

SpecTraits == Init /\ [][NextTraits]_vars

----------------------------------------------------------------------------
(* A solver step in parallel: each worker thread evaluates its own element *)
(* against the shared FemState, into buffers of its own.  A step of a      *)
(* worker is one call on its element; the steps of different workers       *)
(* interleave in every order.                                              *)

Workers == 1..NumWorkers

\* The elements the workers are handed: two nodes in order, or three nodes
\* from node 2 on.
WorkerElementsOf(n) ==
    {FemElement(type, n, choice.node_indices, choice.constitutive_model,
                choice.damping_model, Frame(FALSE, "segv", FALSE, <<>>)).val :
        type \in {t \in DummyElements : t.num_nodes = n},
        choice \in {c \in BuildChoices(n) :
                       c.damping_model.mass_coeff_alpha = 2 * (n - 2)}}

WorkerElements == UNION {WorkerElementsOf(n) : n \in {2, 3}}

WorkerScales == {0 - 1, 2}
WorkerWeights == {Vector3(1, 0, 0), Vector3(2, 3, 0 - 1)}

InitWorkers ==
    /\ build \in [assert_armed : BOOLEAN]
    /\ element = [constructed |-> FALSE]
    /\ data = [x |-> <<>>]
    /\ buffer = [kind |-> "none", val |-> <<>>]
    /\ call = NoCall
    /\ ncalls = 0
    /\ pc = "start"
    /\ given = [constructed |-> FALSE]
    /\ IoIdle
    /\ shared = StateOfSize(NumModelNodes)
    /\ worker \in [Workers ->
                      {[element |-> e,
                        data |-> DefaultData(e),
                        residual |-> [i \in Idx(e.type.num_dofs) |-> 5 - i],
                        tangent |-> [i \in Idx(e.type.num_dofs) |->
                                        [j \in Idx(e.type.num_dofs) |-> 3 * i - j + 1]],
                        scale |-> 0,
                        weights |-> Vector3(0, 0, 0),
                        status |-> "ok",
                        next |-> "ComputeData"] : e \in WorkerElements}]

\* Worker w is at `at`; its call ends in frame fr and it goes on to `to`.
WorkerAt(w, at) == worker[w].next = at /\ worker[w].status = "ok"

WorkerFrame(val) == Frame(build.assert_armed, "segv", FALSE, val)

WorkerComputeData(w) ==
    /\ WorkerAt(w, "ComputeData")
    /\ LET fr == ComputeData(worker[w].element, shared,
                             WorkerFrame(worker[w].data))
       IN  worker' = [worker EXCEPT ![w].data = fr.val,
                                    ![w].status = fr.status,
                                    ![w].next = "CalcResidual"]
    /\ UNCHANGED <<femVars, shared, ioVars>>

WorkerCalcResidual(w) ==
    /\ WorkerAt(w, "CalcResidual")
    /\ LET fr == CalcResidual(worker[w].element, worker[w].data,
                              WorkerFrame(worker[w].residual))
       IN  worker' = [worker EXCEPT ![w].residual = fr.val,
                                    ![w].status = fr.status,
                                    ![w].next = "AddScaledExternalForce"]
    /\ UNCHANGED <<femVars, shared, ioVars>>

WorkerAddScaledExternalForce(w) ==
    /\ WorkerAt(w, "AddScaledExternalForce")
    /\ \E scale \in WorkerScales :
         LET fr == AddScaledExternalForce(worker[w].element, worker[w].data,
                                          scale, WorkerFrame(worker[w].residual))
         IN  worker' = [worker EXCEPT ![w].residual = fr.val,
                                      ![w].scale = scale,
                                      ![w].status = fr.status,
                                      ![w].next = "CalcTangentMatrix"]
    /\ UNCHANGED <<femVars, shared, ioVars>>

WorkerCalcTangentMatrix(w) ==
    /\ WorkerAt(w, "CalcTangentMatrix")
    /\ \E weights \in WorkerWeights :
         LET fr == CalcTangentMatrix(worker[w].element, worker[w].data,
                                     weights, WorkerFrame(worker[w].tangent))
         IN  worker' = [worker EXCEPT ![w].tangent = fr.val,
                                      ![w].weights = weights,
                                      ![w].status = fr.status,
                                      ![w].next = "done"]
    /\ UNCHANGED <<femVars, shared, ioVars>>

NextWorkers ==
    \/ \E w \in Workers : WorkerComputeData(w)
    \/ \E w \in Workers : WorkerCalcResidual(w)
    \/ \E w \in Workers : WorkerAddScaledExternalForce(w)
    \/ \E w \in Workers : WorkerCalcTangentMatrix(w)

SpecWorkers == InitWorkers /\ [][NextWorkers]_vars

----------------------------------------------------------------------------
(* manipulation/kinova_jaco: JacoCommandReceiver as its test drives it.    *)
(* Positions and velocities are held in hundredths; finger quantities of a *)
(* command are in SDK units, those of the output in URDF units.            *)

kJacoDefaultArmNumJoints == 7
kJacoDefaultArmNumFingers == 3
total_dof == kJacoDefaultArmNumJoints + kJacoDefaultArmNumFingers

\* kFingerUrdfToSdk = 1 / kFingerSdkToUrdf: SDK units per URDF unit.
kFingerUrdfToSdk == 4

\* x * kFingerSdkToUrdf
TimesSdkToUrdf(x) == x \div kFingerUrdfToSdk

\* VectorXd::LinSpaced(size, low, ...): evenly spaced from low upwards.
LinSpaced(size, low) == [i \in Idx(size) |-> low + i]

\* Two vectors end to end.
Stack(a, b) ==
    [k \in Idx(Size(a) + Size(b)) |-> IF k < Size(a) THEN a[k] ELSE b[k - Size(a)]]

\* lcmt_jaco_command{}
DefaultCommand ==
    [utime |-> 0,
     num_joints |-> 0, joint_position |-> <<>>, joint_velocity |-> <<>>,
     num_fingers |-> 0, finger_position |-> <<>>, finger_velocity |-> <<>>]

\* The command the tests build: arm positions from q, arm velocities from
\* q + 20, finger positions from q + 100 and finger velocities from q + 120,
\* the finger quantities times kFingerUrdfToSdk.
Command(joints, fingers, q) ==
    [utime |-> 0,
     num_joints |-> joints,
     joint_position |-> LinSpaced(joints, q),
     joint_velocity |-> LinSpaced(joints, q + 20),
     num_fingers |-> fingers,
     finger_position |-> VecScale(kFingerUrdfToSdk, LinSpaced(fingers, q + 100)),
     finger_velocity |-> VecScale(kFingerUrdfToSdk, LinSpaced(fingers, q + 120))]

\* The commands set on the input: those of the two acceptance tests, and
\* one for an arm with a joint less.
Commands ==
    {Command(kJacoDefaultArmNumJoints, kJacoDefaultArmNumFingers, 30),
     Command(kJacoDefaultArmNumJoints, kJacoDefaultArmNumFingers, 130),
     Command(kJacoDefaultArmNumJoints - 1, kJacoDefaultArmNumFingers, 30)}

\* The measured positions fixed on the port: q0, q1, q2, ...
MeasuredPositions == {LinSpaced(total_dof, 10 * n) : n \in 1..NumMeasured}

\* The position_measured input if the port has a value, else zero.
CalcPositionMeasuredOrZero(ctx) ==
    IF ctx.position_measured.has_value THEN ctx.position_measured.value
    ELSE ZeroVector(total_dof)

CalcInputIgnoringLatch(ctx) ==
    IF ctx.message = DefaultCommand
    THEN LET positions == CalcPositionMeasuredOrZero(ctx)
         IN  [status |-> "ok",
              val |->
                [utime |-> 0,
                 num_joints |-> kJacoDefaultArmNumJoints,
                 joint_position |->
                     [i \in Idx(kJacoDefaultArmNumJoints) |-> positions[i]],
                 joint_velocity |-> ZeroVector(kJacoDefaultArmNumJoints),
                 num_fingers |-> kJacoDefaultArmNumFingers,
                 finger_position |->
                     [i \in Idx(kJacoDefaultArmNumFingers) |->
                         positions[kJacoDefaultArmNumJoints + i] * kFingerUrdfToSdk],
                 finger_velocity |-> ZeroVector(kJacoDefaultArmNumFingers)]]
    ELSE IF /\ ctx.message.num_joints = kJacoDefaultArmNumJoints
            /\ ctx.message.num_fingers = kJacoDefaultArmNumFingers
         THEN [status |-> "ok", val |-> ctx.message]
         ELSE [status |-> "throw", val |-> ctx.message]

CalcInputNoConversion(ctx) ==
    IF ctx.message = DefaultCommand
    THEN LET positions == IF ctx.latch_is_set THEN ctx.latched
                          ELSE CalcPositionMeasuredOrZero(ctx)
         IN  [status |-> "ok",
              val |->
                [utime |-> 0,
                 num_joints |-> kJacoDefaultArmNumJoints,
                 joint_position |->
                     [i \in Idx(kJacoDefaultArmNumJoints) |-> positions[i]],
                 joint_velocity |-> ZeroVector(kJacoDefaultArmNumJoints),
                 num_fingers |-> kJacoDefaultArmNumFingers,
                 finger_position |->
                     [i \in Idx(kJacoDefaultArmNumFingers) |->
                         positions[kJacoDefaultArmNumJoints + i]],
                 finger_velocity |-> ZeroVector(kJacoDefaultArmNumFingers)]]
    ELSE IF /\ ctx.message.num_joints = kJacoDefaultArmNumJoints
            /\ ctx.message.num_fingers = kJacoDefaultArmNumFingers
         THEN [status |-> "ok", val |-> ctx.message]
         ELSE [status |-> "throw", val |-> ctx.message]

\* The groomed input: the message received, or, while none has been, a
\* command holding the latched position (the measured one before any
\* latch) at zero velocity.
CalcInput(ctx) ==
    IF ctx.message = DefaultCommand
    THEN LET positions == IF ctx.latch_is_set THEN ctx.latched
                          ELSE CalcPositionMeasuredOrZero(ctx)
         IN  [status |-> "ok",
              val |->
                [utime |-> 0,
                 num_joints |-> kJacoDefaultArmNumJoints,
                 joint_position |->
                     [i \in Idx(kJacoDefaultArmNumJoints) |-> positions[i]],
                 joint_velocity |-> ZeroVector(kJacoDefaultArmNumJoints),
                 num_fingers |-> kJacoDefaultArmNumFingers,
                 finger_position |->
                     [i \in Idx(kJacoDefaultArmNumFingers) |->
                         positions[kJacoDefaultArmNumJoints + i] * kFingerUrdfToSdk],
                 finger_velocity |-> ZeroVector(kJacoDefaultArmNumFingers)]]
    ELSE IF /\ ctx.message.num_joints = kJacoDefaultArmNumJoints
            /\ ctx.message.num_fingers = kJacoDefaultArmNumFingers
         THEN [status |-> "ok", val |-> ctx.message]
         ELSE [status |-> "throw", val |-> ctx.message]

CalcOutputArmThenFingers(ctx) ==
    LET in == CalcInput(ctx)
        m == in.val
    IN  IF in.status # "ok" THEN [status |-> in.status, val |-> <<>>]
        ELSE [status |-> "ok",
              val |->
                Stack(Stack(m.joint_position, m.joint_velocity),
                       Stack([i \in Idx(kJacoDefaultArmNumFingers) |->
                                  TimesSdkToUrdf(m.finger_position[i])],
                              [i \in Idx(kJacoDefaultArmNumFingers) |->
                                  TimesSdkToUrdf(m.finger_velocity[i])]))]

\* The "state" output port: [arm q, finger q, arm v, finger v].
CalcOutput(ctx) ==
    LET in == CalcInput(ctx)
        m == in.val
    IN  IF in.status # "ok" THEN [status |-> in.status, val |-> <<>>]
        ELSE [status |-> "ok",
              val |->
                Stack(Stack(m.joint_position,
                              [i \in Idx(kJacoDefaultArmNumFingers) |->
                                  TimesSdkToUrdf(m.finger_position[i])]),
                       Stack(m.joint_velocity,
                              [i \in Idx(kJacoDefaultArmNumFingers) |->
                                  TimesSdkToUrdf(m.finger_velocity[i])]))]

\* The fixture: a default context with lcmt_jaco_command{} fixed on the
\* message port and nothing on position_measured.
InitJaco ==
    /\ FemIdle /\ XmlIdle /\ UrdfIdle /\ UriIdle
    /\ context = [message |-> DefaultCommand,
                  position_measured |-> [has_value |-> FALSE, value |-> <<>>],
                  latch_is_set |-> FALSE,
                  latched |-> ZeroVector(total_dof)]
    /\ harness = [observed |-> [status |-> "none", val |-> <<>>],
                  fixed |-> 0, events |-> 0]

\* dut_.get_position_measured_input_port().FixValue(&context_, q)
FixPositionMeasured ==
    /\ \E q \in MeasuredPositions :
         context' = [context EXCEPT
                        !.position_measured = [has_value |-> TRUE, value |-> q]]
    /\ harness' = [harness EXCEPT
                      !.fixed = IF @ < NumMeasured THEN @ + 1 ELSE @]
    /\ UNCHANGED <<femVars, parVars, xml, urdf, uri>>

\* SetInput(command)
SetInput ==
    /\ \E message \in Commands : context' = [context EXCEPT !.message = message]
    /\ UNCHANGED <<femVars, parVars, xml, urdf, uri, harness>>

\* An update event: the measured position (or zero) is latched.
LatchInitialPosition ==
    /\ context' = [context EXCEPT
                      !.latch_is_set = TRUE,
                      !.latched = CalcPositionMeasuredOrZero(context)]
    /\ harness' = [harness EXCEPT !.events = IF @ < 2 THEN @ + 1 ELSE @]
    /\ UNCHANGED <<femVars, parVars, xml, urdf, uri>>

\* state(): dut_.get_output_port().Eval(context_)
EvalState ==
    /\ harness' = [harness EXCEPT !.observed = CalcOutput(context)]
    /\ harness'.observed # harness.observed
    /\ UNCHANGED <<femVars, parVars, xml, urdf, uri, context>>

NextJaco ==
    \/ FixPositionMeasured
    \/ SetInput
    \/ LatchInitialPosition
    \/ EvalState

SpecJaco == InitJaco /\ [][NextJaco]_vars

----------------------------------------------------------------------------
(* Properties.  `call` is the most recent call, so `element` and `data`    *)
(* are still the ones it ran with, call.pre is what the caller's buffer    *)
(* held before it and buffer.val what it holds after.                      *)

Called(op) == pc # "start" /\ call.op = op

\* The call passed a valid output pointer.
CalledOn(op) == Called(op) /\ ~call.null

K_local == LocalStiffness(element, data)
M_local == LocalMass(element, data)
alpha == element.damping_model.mass_coeff_alpha
beta == element.damping_model.stiffness_coeff_beta

\* alpha*M + beta*K
RayleighDamping == MatAdd(MatScale(alpha, M_local), MatScale(beta, K_local))

\* A frame of this build on a zeroed matrix.
ZeroedMatrixFrame ==
    Frame(build.assert_armed, "segv", FALSE, ZeroMatrix(element.type.num_dofs))

\* C1: CalcResidual zeroes the residual and then lets the concrete kernel
\* accumulate into it: whatever the buffer held before, after the call it
\* holds exactly the kernel's contribution.
C1_CalcResidualStartsFromZero ==
    (CalledOn("CalcResidual") /\ Defines(element, "DoCalcResidual")) =>
        /\ call.status = "ok"
        /\ call.calls = <<"Derived::DoCalcResidual">>
        /\ buffer.val = LocalResidual(element, data)

C1_Witness ==
    /\ CalledOn("CalcResidual") /\ call.status = "ok"
    /\ call.pre # ZeroVector(element.type.num_dofs)
    /\ buffer.val = LocalResidual(element, data)
    /\ buffer.val # call.pre

\* C2: CalcTangentMatrix leaves T = (w0 + w1*beta)*K + (w2 + w1*alpha)*M,
\* whatever T held before, and that equals w0*K + w1*(alpha*M + beta*K) + w2*M.
C2_TangentFoldsRayleigh ==
    (/\ CalledOn("CalcTangentMatrix")
     /\ Defines(element, "DoAddScaledStiffnessMatrix")
     /\ Defines(element, "DoAddScaledMassMatrix")) =>
        LET w == call.args
        IN  /\ call.status = "ok"
            /\ buffer.val = MatAdd(MatScale(w[0] + w[1] * beta, K_local),
                                   MatScale(w[2] + w[1] * alpha, M_local))
            /\ buffer.val = MatAdd(MatAdd(MatScale(w[0], K_local),
                                          MatScale(w[1], RayleighDamping)),
                                   MatScale(w[2], M_local))

C2_Witness ==
    /\ CalledOn("CalcTangentMatrix") /\ call.status = "ok"
    /\ call.args = Vector3(2, 3, 0 - 1)
    /\ alpha # 0 /\ alpha # beta
    /\ call.pre # ZeroMatrix(element.type.num_dofs)
    /\ data # DefaultData(element)

\* C3: AddScaledStiffnessMatrix and AddScaledMassMatrix only accumulate:
\* the buffer ends as its prior contents plus scale times the local matrix,
\* for every scale.
C3_AddScaledAccumulates ==
    /\ (CalledOn("AddScaledStiffnessMatrix")
        /\ Defines(element, "DoAddScaledStiffnessMatrix")) =>
           /\ call.status = "ok"
           /\ buffer.val = MatAdd(call.pre, MatScale(call.args, K_local))
    /\ (CalledOn("AddScaledMassMatrix")
        /\ Defines(element, "DoAddScaledMassMatrix")) =>
           /\ call.status = "ok"
           /\ buffer.val = MatAdd(call.pre, MatScale(call.args, M_local))

C3_Witness ==
    /\ CalledOn("AddScaledStiffnessMatrix") /\ call.status = "ok"
    /\ call.args = 0 - 1
    /\ call.pre # ZeroMatrix(element.type.num_dofs)
    /\ buffer.val # call.pre
    /\ buffer.val # MatScale(call.args, K_local)

\* C4: AddScaledDampingMatrix is AddScaledMassMatrix with scale*alpha
\* followed by AddScaledStiffnessMatrix with scale*beta: the buffer ends as
\* its prior contents plus scale*(alpha*M + beta*K), and the only kernels
\* entered are the mass and the stiffness kernel, in that order.
C4_DampingIsMassThenStiffness ==
    (/\ CalledOn("AddScaledDampingMatrix")
     /\ Defines(element, "DoAddScaledStiffnessMatrix")
     /\ Defines(element, "DoAddScaledMassMatrix")) =>
        LET scale == call.args
            prior == Frame(build.assert_armed, "segv", FALSE, call.pre)
            m == AddScaledMassMatrix(element, data, scale * alpha, prior)
            k == AddScaledStiffnessMatrix(element, data, scale * beta, m)
        IN  /\ call.status = "ok"
            /\ buffer.val = MatAdd(call.pre, MatScale(scale, RayleighDamping))
            /\ buffer.val = k.val
            /\ call.calls = k.calls
            /\ call.calls = <<"Derived::DoAddScaledMassMatrix",
                              "Derived::DoAddScaledStiffnessMatrix">>

C4_Witness ==
    /\ CalledOn("AddScaledDampingMatrix") /\ call.status = "ok"
    /\ call.args = 2 /\ alpha = 2 /\ beta = 3
    /\ call.pre # ZeroMatrix(element.type.num_dofs)
    /\ data # DefaultData(element)

\* Every node of the element lies inside state_dofs.
InBounds(e, state_dofs) ==
    \A i \in DOMAIN e.node_indices :
        /\ is_valid(e.node_indices[i])
        /\ (e.node_indices[i] + 1) * kDim <= Size(state_dofs)

\* C5: ExtractElementDofs returns a vector of length 3*num_nodes whose entry
\* 3*i + c is global_dofs[3*node_indices[i] + c]; with node_indices
\* [2, 0, 1] it returns the blocks C, A, B; the member form agrees with the
\* static form on the element's own node_indices.
C5_ExtractElementDofsOrdering ==
    (Called("ExtractElementDofs") /\ InBounds(element, call.args.q)) =>
        LET q == call.args.q
            static == ExtractElementDofs(element.node_indices, q,
                                         Frame(build.assert_armed, "segv", FALSE, <<>>))
        IN  /\ call.status = "ok"
            /\ DOMAIN call.ret = Idx(3 * element.type.num_nodes)
            /\ \A i \in Idx(element.type.num_nodes) : \A c \in {0, 1, 2} :
                   call.ret[3 * i + c] = q[3 * element.node_indices[i] + c]
            /\ call.ret = static.val
            /\ (element.node_indices = (0 :> 2 @@ 1 :> 0 @@ 2 :> 1)
                /\ q = StateOfSize(3).q) =>
                   call.ret = (0 :> 21 @@ 1 :> 22 @@ 2 :> 23 @@ 3 :> 1 @@ 4 :> 2
                               @@ 5 :> 3 @@ 6 :> 11 @@ 7 :> 12 @@ 8 :> 13)

C5_Witness ==
    /\ Called("ExtractElementDofs") /\ call.status = "ok"
    /\ element.node_indices = (0 :> 2 @@ 1 :> 0 @@ 2 :> 1)
    /\ call.args = StateOfSize(3)
    /\ call.ret[0] = 21 /\ call.ret[3] = 1 /\ call.ret[6] = 11

\* gravity stacked once per node
g_stacked == [k \in Idx(element.type.num_dofs) |-> element.gravity[k % 3]]

IdentityMatrix(n) == [i \in Idx(n) |-> [j \in Idx(n) |-> IF i = j THEN 1 ELSE 0]]

\* C6: AddScaledExternalForce only accumulates, and with the default hook
\* the buffer ends as its prior contents plus scale * M * g_stacked; with
\* default gravity, identity M, 2 nodes, scale 1 and a zeroed buffer the
\* result is (0, 0, -9.81, 0, 0, -9.81).
C6_ExternalForceIsConsistentGravity ==
    (/\ CalledOn("AddScaledExternalForce")
     /\ Defines(element, "DoAddScaledMassMatrix")
     /\ ~Defines(element, "DoAddScaledExternalForce")) =>
        /\ call.status = "ok"
        /\ buffer.val = VecAdd(call.pre,
                               VecScale(call.args, MatVec(M_local, g_stacked)))
        /\ (/\ element.type.num_nodes = 2
            /\ M_local = IdentityMatrix(6)
            /\ element.gravity = Vector3(0, 0, 0 - 981)
            /\ call.args = 1
            /\ call.pre = ZeroVector(6)) =>
               buffer.val = (0 :> 0 @@ 1 :> 0 @@ 2 :> 0 - 981
                             @@ 3 :> 0 @@ 4 :> 0 @@ 5 :> 0 - 981)

C6_Witness ==
    /\ CalledOn("AddScaledExternalForce") /\ call.status = "ok"
    /\ ~Defines(element, "DoAddScaledExternalForce")
    /\ element.type.num_nodes = 2
    /\ M_local = IdentityMatrix(6)
    /\ element.gravity = Vector3(0, 0, 0 - 981)
    /\ call.args = 1
    /\ call.pre = ZeroVector(6)
    /\ buffer.val[2] = 0 - 981 /\ buffer.val[5] = 0 - 981

\* C7: when the concrete element defines DoAddScaledExternalForce,
\* AddScaledExternalForce enters that hook after adding gravity, and the
\* hook's contribution is in the force buffer.
C7_ConcreteHookIsInvoked ==
    (/\ CalledOn("AddScaledExternalForce")
     /\ call.status = "ok"
     /\ Defines(element, "DoAddScaledExternalForce")) =>
        /\ call.calls = <<"Derived::DoAddScaledMassMatrix",
                          "Derived::DoAddScaledExternalForce">>
        /\ buffer.val =
             VecAdd(VecAdd(call.pre,
                           VecScale(call.args, MatVec(M_local, g_stacked))),
                    VecScale(call.args, LocalExtraForce(element, data)))

MissingKernelCall ==
    \/ Called("ComputeData") /\ ~Defines(element, "DoComputeData")
    \/ CalledOn("CalcResidual") /\ ~Defines(element, "DoCalcResidual")
    \/ CalledOn("AddScaledStiffnessMatrix")
         /\ ~Defines(element, "DoAddScaledStiffnessMatrix")
    \/ CalledOn("AddScaledMassMatrix")
         /\ ~Defines(element, "DoAddScaledMassMatrix")

\* C8: ComputeData, CalcResidual, AddScaledStiffnessMatrix or
\* AddScaledMassMatrix on a concrete element that omits the corresponding
\* kernel always throws, and the message holds both the name of the omitted
\* operation and the name of the concrete element type.
C8_MissingKernelThrows ==
    MissingKernelCall =>
        /\ call.status = "throw"
        /\ call.calls = <<"FemElement::Do" \o call.op>>
        /\ Contains(call.msg, <<call.op>>)
        /\ Contains(call.msg, element.type.name)

C8_Witness ==
    /\ CalledOn("AddScaledStiffnessMatrix")
    /\ ~Defines(element, "DoAddScaledStiffnessMatrix")
    /\ call.status = "throw"
    /\ call.msg = <<"The DerivedElement from ",
                    "drake::multibody::fem::internal::FemElement<",
                    "ElementWithout", "DoAddScaledStiffnessMatrix", ">",
                    " must provide an implementation for ",
                    "Do", "AddScaledStiffnessMatrix", "().">>

BufferOperations ==
    {"CalcResidual", "CalcTangentMatrix", "AddScaledStiffnessMatrix",
     "AddScaledMassMatrix", "AddScaledDampingMatrix", "AddScaledExternalForce"}

NullCall == pc # "start" /\ call.op \in BufferOperations /\ call.null

\* The call ended in the precondition check: no kernel entered, nothing
\* written.
FailedFast ==
    /\ call.status = "abort"
    /\ call.calls = <<>>
    /\ buffer.val = call.pre

\* C9 as claimed: a null output buffer passed to any of the six operations
\* fails fast in the precondition check, before any kernel is entered and
\* before anything is written.
C9_NullAlwaysFailsFast == NullCall => FailedFast

\* C9, amended: a null output buffer fails fast in CalcTangentMatrix in
\* every build, and in the other five operations in the builds that arm
\* DRAKE_ASSERT; in a build that does not, the three AddScaled...Matrix
\* operations and AddScaledExternalForce enter a kernel without any check.
C9_NullFailsFastWhenChecked ==
    /\ (NullCall /\ (call.op = "CalcTangentMatrix" \/ build.assert_armed)) =>
           FailedFast
    /\ (NullCall /\ ~build.assert_armed
        /\ call.op \in {"AddScaledStiffnessMatrix", "AddScaledMassMatrix",
                        "AddScaledDampingMatrix", "AddScaledExternalForce"}) =>
           /\ call.status # "abort"
           /\ call.calls # <<>>

C9_Witness ==
    /\ NullCall /\ call.op = "CalcTangentMatrix"
    /\ ~build.assert_armed
    /\ FailedFast /\ pc = "dead"

\* C10: with a unit weight vector CalcTangentMatrix on any buffer gives what
\* the matching accumulate operation gives with scale 1 on a zeroed buffer:
\* (1,0,0) the stiffness matrix, (0,0,1) the mass matrix, (0,1,0) the
\* damping matrix alpha*M + beta*K.
C10_TangentUnitWeights ==
    (/\ CalledOn("CalcTangentMatrix")
     /\ Defines(element, "DoAddScaledStiffnessMatrix")
     /\ Defines(element, "DoAddScaledMassMatrix")) =>
        /\ call.args = Vector3(1, 0, 0) =>
             buffer.val =
               AddScaledStiffnessMatrix(element, data, 1, ZeroedMatrixFrame).val
        /\ call.args = Vector3(0, 0, 1) =>
             buffer.val =
               AddScaledMassMatrix(element, data, 1, ZeroedMatrixFrame).val
        /\ call.args = Vector3(0, 1, 0) =>
             /\ buffer.val = RayleighDamping
             /\ buffer.val =
                  AddScaledDampingMatrix(element, data, 1, ZeroedMatrixFrame).val

C10_Witness ==
    /\ CalledOn("CalcTangentMatrix") /\ call.status = "ok"
    /\ call.args = Vector3(0, 1, 0)
    /\ alpha = 2 /\ beta = 3
    /\ call.pre # ZeroMatrix(element.type.num_dofs)
    /\ buffer.val = RayleighDamping
    /\ buffer.val # ZeroMatrix(element.type.num_dofs)

----------------------------------------------------------------------------
(* Calls in a row on the same buffer. *)

\* This step is a second successful call of op, with the arguments of the
\* successful call of op just before it, on the buffer that call left.
SecondInARow(op) ==
    /\ call.op = op /\ call.status = "ok" /\ ~call.null
    /\ ncalls' = ncalls + 1
    /\ call'.op = op /\ call'.status = "ok" /\ ~call'.null
    /\ call'.args = call.args

\* C11 as stated: two calls of AddScaledStiffnessMatrix with the same
\* positive scale on a buffer seeded with X leave X + 2 * (local K).
C11_TwiceAddsTwoLocalK ==
    [][(SecondInARow("AddScaledStiffnessMatrix") /\ call.args > 0) =>
           buffer'.val = MatAdd(call.pre, MatScale(2, K_local))]_vars

\* C11: two calls of AddScaledStiffnessMatrix with the same scale on a
\* buffer seeded with X leave X + 2 * scale * (local K): each call adds
\* scale * K once more, and nothing is reset between the calls.
C11_TwiceAddsTwiceScaledK ==
    [][SecondInARow("AddScaledStiffnessMatrix") =>
           /\ buffer.val = MatAdd(call.pre, MatScale(call.args, K_local))
           /\ buffer'.val = MatAdd(call.pre, MatScale(2 * call.args, K_local))]_vars

C11_Witness ==
    /\ CalledOn("AddScaledStiffnessMatrix") /\ call.status = "ok"
    /\ ncalls = 2 /\ call.args = 2
    /\ \E X \in MatrixSeeds(element.type.num_dofs) \ {ZeroMatrix(element.type.num_dofs)} :
         /\ call.pre = MatAdd(X, MatScale(2, K_local))
         /\ buffer.val = MatAdd(X, MatScale(4, K_local))
         /\ buffer.val # MatAdd(X, MatScale(2, K_local))
    /\ data # DefaultData(element)

\* The value one call of CalcTangentMatrix with weights w leaves, whatever
\* the buffer held.
TangentOf(w) ==
    MatAdd(MatScale(w[0] + w[1] * beta, K_local),
           MatScale(w[2] + w[1] * alpha, M_local))

\* C12: CalcTangentMatrix is idempotent on its output buffer: a call made
\* right after a call with the same data and weights leaves the buffer as
\* it found it, holding the value a single call leaves on any buffer.
C12_TangentIdempotent ==
    [][SecondInARow("CalcTangentMatrix") =>
           /\ buffer'.val = buffer.val
           /\ buffer'.val = TangentOf(call.args)]_vars

C12_Witness ==
    /\ CalledOn("CalcTangentMatrix") /\ call.status = "ok"
    /\ ncalls = 2 /\ call.args = Vector3(2, 3, 0 - 1)
    /\ call.pre = TangentOf(call.args)
    /\ buffer.val = call.pre
    /\ buffer.val # ZeroMatrix(element.type.num_dofs)
    /\ data # DefaultData(element)

\* C13: AddScaledMassMatrix is linear in its scale: on a zeroed buffer,
\* the call with scale 2*s leaves twice what the call with scale s leaves,
\* for every s.
C13_MassLinearInScale ==
    (/\ CalledOn("AddScaledMassMatrix")
     /\ Defines(element, "DoAddScaledMassMatrix")
     /\ call.pre = ZeroMatrix(element.type.num_dofs)) =>
        LET doubled == AddScaledMassMatrix(element, data, 2 * call.args,
                                           ZeroedMatrixFrame)
        IN  /\ call.status = "ok" /\ doubled.status = "ok"
            /\ doubled.val = MatScale(2, buffer.val)

C13_Witness ==
    /\ CalledOn("AddScaledMassMatrix") /\ call.status = "ok"
    /\ call.pre = ZeroMatrix(element.type.num_dofs)
    /\ call.args = 0 - 1
    /\ buffer.val = MatScale(0 - 1, M_local)
    /\ buffer.val # call.pre
    /\ data # DefaultData(element)

----------------------------------------------------------------------------
(* The fields of the element over its lifetime. *)

\* The constructor returned an element.
Constructed == "gravity" \in DOMAIN element

\* C14: the gravity vector is the element's only mutable field.  A new
\* element reports (0, 0, -9.81); after set_gravity_vector(v) it reports v;
\* whatever was called since, the gravity vector is the last one set (the
\* default if none was), and element_index, node_indices and the models
\* are those given at construction.
C14_GravityOnlyMutableField ==
    Constructed =>
        /\ gravity_vector(element) =
               IF given.gravity_set THEN given.gravity
               ELSE Vector3(0, 0, kGravityZ)
        /\ Called("FemElement") =>
               gravity_vector(element) = Vector3(0, 0, kGravityZ)
        /\ Called("set_gravity_vector") =>
               gravity_vector(element) = call.args
        /\ element = [type |-> element.type,
                      element_index |-> given.element_index,
                      node_indices |-> given.node_indices,
                      constitutive_model |-> given.constitutive_model,
                      damping_model |-> given.damping_model,
                      gravity |-> gravity_vector(element)]

C14_Witness ==
    /\ Constructed /\ given.gravity_set
    /\ CalledOn("AddScaledExternalForce") /\ call.status = "ok" /\ ncalls = 2
    /\ gravity_vector(element) = Vector3(100, 0, 0 - 200)
    /\ gravity_vector(element) # Vector3(0, 0, kGravityZ)
    /\ alpha = 2

AllValid(element_index, node_indices) ==
    /\ is_valid(element_index)
    /\ \A i \in DOMAIN node_indices : is_valid(node_indices[i])

\* C15 as stated: after any sequence of operations element_index() and
\* node_indices() return the values and order given at construction, and
\* both are valid.
C15_IndicesKeptAndValid ==
    Constructed =>
        /\ element_index_of(element) = given.element_index
        /\ node_indices_of(element) = given.node_indices
        /\ AllValid(element_index_of(element), node_indices_of(element))

\* C15: after any sequence of operations, failing calls and
\* set_gravity_vector included, element_index() and node_indices() return
\* the values and order given at construction; they are valid whenever
\* those were valid, which is certain only where DRAKE_ASSERT is armed.
C15_IndicesKept ==
    Constructed =>
        /\ element_index_of(element) = given.element_index
        /\ node_indices_of(element) = given.node_indices
        /\ (build.assert_armed
             \/ AllValid(given.element_index, given.node_indices)) =>
               AllValid(element_index_of(element), node_indices_of(element))

C15_Witness ==
    /\ Constructed /\ given.gravity_set /\ ncalls = 2
    /\ call.status = "throw"
    /\ element_index_of(element) = 0
    /\ node_indices_of(element) = (0 :> 2)

\* C16: num_dofs == 3 * num_nodes for every concrete element used with
\* FemElement: the size num_dofs of the residual, force and matrix buffers
\* agrees with the 3 * num_nodes entries ExtractElementDofs returns and
\* with the entries the per-node stacking of gravity writes.
C16_DofsAreThreePerNode ==
    Constructed =>
        /\ element.type.num_dofs = kDim * element.type.num_nodes
        /\ buffer.kind = "vector" =>
               Size(buffer.val) = kDim * element.type.num_nodes
        /\ (Called("ExtractElementDofs") /\ call.status = "ok") =>
               Size(call.ret) = element.type.num_dofs
        /\ CalledOn("AddScaledExternalForce") =>
               /\ call.status = "ok"
               /\ \A k \in Idx(element.type.num_dofs) :
                      StackedGravity(element)[k] = gravity_vector(element)[k % kDim]

----------------------------------------------------------------------------
(* What is checked, and in which builds. *)

\* Some node of the element ends beyond state_dofs.
ExceedsBound(e, state_dofs) ==
    \E i \in DOMAIN e.node_indices :
        kDim * (e.node_indices[i] + 1) > Size(state_dofs)

\* Every entry returned was read from inside state_dofs.
ReadInRange(e, state_dofs, ret) ==
    \A i \in DOMAIN e.node_indices : \A c \in Idx(kDim) :
        /\ kDim * e.node_indices[i] + c \in DOMAIN state_dofs
        /\ ret[kDim * i + c] = state_dofs[kDim * e.node_indices[i] + c]

\* C17 as stated: ExtractElementDofs fails its check when some node ends
\* beyond global_dofs, and otherwise succeeds reading only in-range entries.
C17_BoundsAlwaysChecked ==
    Called("ExtractElementDofs") =>
        IF ExceedsBound(element, call.args.q)
        THEN call.status = "abort"
        ELSE call.status = "ok" /\ ReadInRange(element, call.args.q, call.ret)

\* C17: where DRAKE_ASSERT is armed, ExtractElementDofs fails its check when
\* some node ends beyond global_dofs; where it is not, no check is made and
\* the call reads outside the vector (it crashes or returns stray values).
\* When every node index is valid and within the bound, the call succeeds
\* in every build and reads only in-range entries.
C17_BoundsCheckedWhenArmed ==
    Called("ExtractElementDofs") =>
        /\ (build.assert_armed /\ ExceedsBound(element, call.args.q)) =>
               call.status = "abort"
        /\ (~build.assert_armed /\ ExceedsBound(element, call.args.q)) =>
               \/ call.status = "segv"
               \/ /\ call.status = "ok"
                  /\ \E k \in DOMAIN call.ret : call.ret[k] = StrayValue
        /\ InBounds(element, call.args.q) =>
               call.status = "ok" /\ ReadInRange(element, call.args.q, call.ret)

C17_Witness ==
    /\ Called("ExtractElementDofs")
    /\ build.assert_armed
    /\ ExceedsBound(element, call.args.q)
    /\ element.type.num_nodes = 2 /\ is_valid(node_indices_of(element)[1])
    /\ call.status = "abort" /\ pc = "dead"

\* The element holds the constructor's arguments.
StoredAsGiven ==
    /\ Constructed
    /\ element_index_of(element) = call.args[1]
    /\ node_indices_of(element) = call.args[2]
    /\ element.constitutive_model = given.constitutive_model
    /\ element.damping_model = given.damping_model

\* Two entries of node_indices name the same node.
Repeated(node_indices) ==
    \E i, j \in DOMAIN node_indices : i # j /\ node_indices[i] = node_indices[j]

\* C18 as stated: construction with an invalid element_index or an invalid
\* entry of node_indices fails the validation check; valid arguments,
\* repeated node indices included, are accepted and the models stored as
\* given.
C18_ConstructionValidates ==
    Called("FemElement") =>
        IF AllValid(call.args[1], call.args[2])
        THEN call.status = "ok" /\ StoredAsGiven
        ELSE call.status = "abort" /\ ~Constructed

\* C18: where DRAKE_ASSERT is armed, construction with an invalid
\* element_index or an invalid entry of node_indices fails the validation
\* check; where it is not, nothing is checked and the element is built
\* holding the invalid index.  Valid arguments, repeated node indices
\* included, are accepted in every build, and the indices and the
\* constitutive and damping models are stored as given.
C18_ConstructionValidatesWhenArmed ==
    Called("FemElement") =>
        /\ AllValid(call.args[1], call.args[2]) =>
               call.status = "ok" /\ StoredAsGiven
        /\ (AllValid(call.args[1], call.args[2]) /\ Repeated(call.args[2])) =>
               call.status = "ok" /\ Repeated(node_indices_of(element))
        /\ (~AllValid(call.args[1], call.args[2]) /\ build.assert_armed) =>
               call.status = "abort" /\ ~Constructed /\ pc = "dead"
        /\ (~AllValid(call.args[1], call.args[2]) /\ ~build.assert_armed) =>
               call.status = "ok" /\ StoredAsGiven

C18_Witness ==
    /\ Called("FemElement") /\ build.assert_armed
    /\ is_valid(call.args[1])
    /\ call.args[2] = (0 :> InvalidIndex)
    /\ call.status = "abort" /\ ~Constructed

----------------------------------------------------------------------------
(* Elements evaluated in parallel. *)

\* What the calls of one worker leave when run alone, one after another,
\* on element e against state: the Data, the residual with the external
\* force added, and the tangent matrix.
SequentialData(e, state) ==
    [x |-> [k \in Idx(kDim * e.type.num_nodes) |->
               state.q[kDim * e.node_indices[k \div kDim] + (k % kDim)]]]

SequentialResidual(e, state) == LocalResidual(e, SequentialData(e, state))

SequentialForce(e, state, scale) ==
    VecAdd(SequentialResidual(e, state),
           VecScale(scale,
                    MatVec(LocalMass(e, SequentialData(e, state)),
                           [k \in Idx(e.type.num_dofs) |-> e.gravity[k % kDim]])))

SequentialTangent(e, state, w) ==
    MatAdd(MatScale(w[0] + w[1] * e.damping_model.stiffness_coeff_beta,
                    LocalStiffness(e, SequentialData(e, state))),
           MatScale(w[2] + w[1] * e.damping_model.mass_coeff_alpha,
                    LocalMass(e, SequentialData(e, state))))

\* The outputs worker w holds are those of its calls so far run alone.
OutputsAsSequential(w, wk, state) ==
    LET e == wk.element
    IN  /\ wk.status = "ok"
        /\ wk.next # "ComputeData" => wk.data = SequentialData(e, state)
        /\ wk.next = "AddScaledExternalForce" =>
               wk.residual = SequentialResidual(e, state)
        /\ wk.next \in {"CalcTangentMatrix", "done"} =>
               wk.residual = SequentialForce(e, state, wk.scale)
        /\ wk.next = "done" =>
               wk.tangent = SequentialTangent(e, state, wk.weights)

\* C19: element operations are independently reentrant.  With two or more
\* workers each evaluating its own element in any interleaving, reading
\* the one shared state and writing only its own buffers, every step
\* leaves the shared state and every element as they were, changes the
\* outputs of no other worker, and leaves every worker holding the outputs
\* its calls produce when run alone in sequence.
C19_IndependentlyReentrant ==
    [][/\ shared' = shared
       /\ \A w \in Workers :
            /\ worker'[w].element = worker[w].element
            /\ OutputsAsSequential(w, worker'[w], shared')
       /\ \A w, v \in Workers :
            (w # v /\ worker'[w] # worker[w]) => worker'[v] = worker[v]]_vars

C19_Witness ==
    /\ \A w \in Workers : worker[w].next = "done" /\ worker[w].status = "ok"
    /\ worker[1].element # worker[2].element
    /\ worker[1].weights = Vector3(2, 3, 0 - 1) /\ worker[2].scale = 2
    /\ worker[2].tangent = SequentialTangent(worker[2].element, shared,
                                             worker[2].weights)
    /\ worker[1].residual = SequentialForce(worker[1].element, shared,
                                            worker[1].scale)

----------------------------------------------------------------------------
(* Operations as functions of (fields, Data, scalars, buffer). *)

\* The element as the constructor left it: the fields given, no call made
\* on it yet, the default gravity.
FreshElement ==
    FemElement(element.type, given.element_index, given.node_indices,
               given.constitutive_model, given.damping_model,
               Frame(FALSE, "segv", FALSE, <<>>)).val

\* The most recent call made again on element e, from the buffer contents
\* the call found.
CallAgainOn(e) ==
    LET fr == Frame(build.assert_armed, "segv", FALSE, call.pre)
    IN  CASE call.op = "CalcResidual" -> CalcResidual(e, data, fr)
          [] call.op = "CalcTangentMatrix" ->
                 CalcTangentMatrix(e, data, call.args, fr)
          [] call.op = "AddScaledStiffnessMatrix" ->
                 AddScaledStiffnessMatrix(e, data, call.args, fr)
          [] call.op = "AddScaledMassMatrix" ->
                 AddScaledMassMatrix(e, data, call.args, fr)
          [] call.op = "AddScaledDampingMatrix" ->
                 AddScaledDampingMatrix(e, data, call.args, fr)
          [] call.op = "AddScaledExternalForce" ->
                 AddScaledExternalForce(e, data, call.args, fr)

\* The output of the most recent call as a function of the element's
\* fields, the Data, the scalars and the buffer contents alone.
OutputOfInputs ==
    CASE call.op = "CalcResidual" -> LocalResidual(element, data)
      [] call.op = "CalcTangentMatrix" -> TangentOf(call.args)
      [] call.op = "AddScaledStiffnessMatrix" ->
             MatAdd(call.pre, MatScale(call.args, K_local))
      [] call.op = "AddScaledMassMatrix" ->
             MatAdd(call.pre, MatScale(call.args, M_local))
      [] call.op = "AddScaledDampingMatrix" ->
             MatAdd(call.pre, MatScale(call.args, RayleighDamping))
      [] call.op = "AddScaledExternalForce" ->
             VecAdd(call.pre, VecScale(call.args, MatVec(M_local, g_stacked)))

\* C20: every Calc* / AddScaled* call is a stateless transform.  Whatever
\* was called before it and however often, its output is the function of
\* (fields, Data, scalars, buffer contents) that it is on a fresh element;
\* of the history only the gravity vector last set matters, and only to
\* AddScaledExternalForce, which uses the current one.
C20_StatelessTransform ==
    (Constructed /\ call.op \in BufferOperations /\ ~call.null) =>
        LET again == IF call.op = "AddScaledExternalForce"
                     THEN CallAgainOn(set_gravity_vector(FreshElement,
                                                         gravity_vector(element)))
                     ELSE CallAgainOn(FreshElement)
        IN  /\ again.status = call.status
            /\ again.val = buffer.val
            /\ again.calls = call.calls
            /\ RequiredKernels \subseteq element.type.kernels =>
                   call.status = "ok" /\ buffer.val = OutputOfInputs

C20_Witness ==
    /\ Constructed /\ given.gravity_set /\ ncalls = 2
    /\ CalledOn("AddScaledExternalForce") /\ call.status = "ok"
    /\ call.args = 2
    /\ data # DefaultData(element)
    /\ buffer.val = OutputOfInputs
    /\ buffer.val # CallAgainOn(FreshElement).val

----------------------------------------------------------------------------
(* The caller's buffer after a call that failed for want of a kernel. *)

\* C30: a missing-kernel failure leaves the buffer of a zero-then-write
\* operation zeroed, not as the caller had it: all zeros after CalcResidual
\* without a residual kernel and after CalcTangentMatrix without a
\* stiffness kernel; a failing AddScaledStiffnessMatrix or
\* AddScaledMassMatrix leaves the buffer unchanged.
C30_FailureZeroesOrKeeps ==
    /\ (CalledOn("CalcResidual") /\ ~Defines(element, "DoCalcResidual")) =>
           /\ call.status = "throw"
           /\ buffer.val = ZeroVector(element.type.num_dofs)
    /\ (CalledOn("CalcTangentMatrix")
        /\ ~Defines(element, "DoAddScaledStiffnessMatrix")) =>
           /\ call.status = "throw"
           /\ buffer.val = ZeroMatrix(element.type.num_dofs)
    /\ (CalledOn("AddScaledStiffnessMatrix")
        /\ ~Defines(element, "DoAddScaledStiffnessMatrix")) =>
           /\ call.status = "throw"
           /\ buffer.val = call.pre
    /\ (CalledOn("AddScaledMassMatrix")
        /\ ~Defines(element, "DoAddScaledMassMatrix")) =>
           /\ call.status = "throw"
           /\ buffer.val = call.pre

C30_Witness ==
    /\ CalledOn("CalcResidual") /\ ~Defines(element, "DoCalcResidual")
    /\ call.status = "throw"
    /\ call.pre # ZeroVector(element.type.num_dofs)
    /\ buffer.val = ZeroVector(element.type.num_dofs)

----------------------------------------------------------------------------
(* JacoCommandReceiver. *)

\* No command message has been received.
NoCommandYet == context.message = DefaultCommand

\* C21: before any command message, the output is 2 * total_dof zeros
\* while no measured position is supplied; once one is, the first total_dof
\* entries equal it and the velocities stay zero; and until an update
\* event, whichever position_measured was fixed last is the one put out.
C21_MeasuredFeedsThrough ==
    (NoCommandYet /\ ~context.latch_is_set) =>
        LET out == CalcOutput(context)
        IN  /\ out.status = "ok"
            /\ DOMAIN out.val = Idx(2 * total_dof)
            /\ ~context.position_measured.has_value =>
                   out.val = ZeroVector(2 * total_dof)
            /\ context.position_measured.has_value =>
                   \A i \in Idx(total_dof) :
                       /\ out.val[i] = context.position_measured.value[i]
                       /\ out.val[total_dof + i] = 0

C21_Witness ==
    /\ NoCommandYet /\ ~context.latch_is_set /\ harness.events = 0
    /\ harness.fixed = 2
    /\ context.position_measured.has_value
    /\ context.position_measured.value = LinSpaced(total_dof, 20)
    /\ harness.observed = CalcOutput(context)
    /\ harness.observed.val[0] = 20 /\ harness.observed.val[total_dof - 1] = 29
    /\ harness.observed.val[total_dof] = 0

C23_CommandTrumps ==
    (/\ ~NoCommandYet
     /\ context.message.num_joints = kJacoDefaultArmNumJoints
     /\ context.message.num_fingers = kJacoDefaultArmNumFingers) =>
        LET out == CalcOutput(context)
            m == context.message
        IN  /\ out.status = "ok"
            /\ DOMAIN out.val = Idx(2 * total_dof)
            /\ \A i \in Idx(kJacoDefaultArmNumJoints) :
                   /\ out.val[i] = m.joint_position[i]
                   /\ out.val[total_dof + i] = m.joint_velocity[i]
            /\ \A i \in Idx(kJacoDefaultArmNumFingers) :
                   /\ out.val[kJacoDefaultArmNumJoints + i] * kFingerUrdfToSdk
                          = m.finger_position[i]
                   /\ out.val[total_dof + kJacoDefaultArmNumJoints + i]
                          * kFingerUrdfToSdk = m.finger_velocity[i]

C23_Witness ==
    /\ context.message = Command(kJacoDefaultArmNumJoints,
                                 kJacoDefaultArmNumFingers, 30)
    /\ context.position_measured.has_value
    /\ context.position_measured.value = LinSpaced(total_dof, 10)
    /\ harness.observed = CalcOutput(context)
    /\ harness.observed.val[0] = 30
    /\ harness.observed.val[kJacoDefaultArmNumJoints] = 130
    /\ harness.observed.val[total_dof] = 50
    /\ harness.observed.val[2 * total_dof - 1] = 152

\* ------------------------------------------------------------------------
\* XML attribute extraction (multibody/parsing/detail_tinyxml.h)
\* ------------------------------------------------------------------------

\* Longest attribute value, in whitespace-separated tokens.
MaxAttrLen == 4

\* The tokens an attribute value is written with and the number each numeric
\* token reads as; "x" is not a number.
NumberOf == ("1" :> 1) @@ ("2" :> 2)
Tokens == DOMAIN NumberOf \cup {"x"}
AttributeNames == {"xyz", "rpy"}
Rows == {2, 3}

\* An attribute value is the sequence of its tokens.
AttributeValues == UNION {[1..n -> Tokens] : n \in 0..MaxAttrLen}

\* An element carrying one attribute.
XmlNodes == {[name |-> n, value |-> v] : n \in AttributeNames, v \in AttributeValues}

\* node->Attribute(name): the value, or null.
Attribute(node, attribute_name) ==
    IF node.name = attribute_name THEN [null |-> FALSE, value |-> node.value]
    ELSE [null |-> TRUE, value |-> <<>>]

\* The length of the longest prefix of numeric tokens.
RECURSIVE NumericPrefix(_)
NumericPrefix(str) ==
    IF str = <<>> \/ Head(str) \notin DOMAIN NumberOf THEN 0
    ELSE 1 + NumericPrefix(Tail(str))

\* ConvertToDoubles(str): stream extraction reads numbers until the first
\* token that is not one.
ConvertToDoubles(str) == [i \in Idx(NumericPrefix(str)) |-> NumberOf[str[i + 1]]]

\* A variant that writes through val before looking at the count.
ParseVectorAttributeAssignFirst(rows, node, attribute_name, val) ==
    LET attr == Attribute(node, attribute_name)
        vals == ConvertToDoubles(attr.value)
    IN  IF ~attr.null
        THEN IF Size(vals) # rows
             THEN [status |-> "throw", ret |-> FALSE,
                   val |-> [i \in Idx(rows) |-> IF i < Size(vals) THEN vals[i] ELSE val[i]]]
             ELSE [status |-> "ok", ret |-> TRUE, val |-> vals]
        ELSE [status |-> "ok", ret |-> FALSE, val |-> val]

\* ParseVectorAttribute<rows>(node, attribute_name, val).
ParseVectorAttribute(rows, node, attribute_name, val) ==
    LET attr == Attribute(node, attribute_name)
        vals == ConvertToDoubles(attr.value)
    IN  IF ~attr.null
        THEN IF Size(vals) # rows
             THEN [status |-> "throw", ret |-> FALSE, val |-> val]
             ELSE [status |-> "ok", ret |-> TRUE, val |-> vals]
        ELSE [status |-> "ok", ret |-> FALSE, val |-> val]

\* What the caller's vector holds before any call.
ValSeeds(rows) == {[i \in Idx(rows) |-> 7 + i], [i \in Idx(rows) |-> 0]}

InitXml ==
    /\ FemIdle /\ JacoIdle /\ UrdfIdle /\ UriIdle
    /\ \E rows \in Rows, node \in XmlNodes : \E val \in ValSeeds(rows) :
          xml = [rows |-> rows, node |-> node, val |-> val, called |-> FALSE]

\* A caller asks for one attribute of the element.
CallParseVectorAttribute ==
    /\ ~xml.called
    /\ \E attribute_name \in AttributeNames :
          LET r == ParseVectorAttribute(xml.rows, xml.node, attribute_name, xml.val)
          IN  xml' = [rows |-> xml.rows, node |-> xml.node, val |-> r.val,
                      called |-> TRUE, attribute_name |-> attribute_name,
                      pre |-> xml.val, status |-> r.status, ret |-> r.ret]
    /\ UNCHANGED <<femVars, parVars, jacoVars, urdf, uri>>

NextXml == CallParseVectorAttribute

SpecXml == InitXml /\ [][NextXml]_vars

\* The attribute the last call asked for, and the numbers written in it.
Asked == Attribute(xml.node, xml.attribute_name)
AllNumeric(str) == \A k \in 1..Len(str) : str[k] \in DOMAIN NumberOf

\* C24: ParseVectorAttribute returns false and leaves *val untouched when the
\* attribute is absent; returns true with *val holding the values in order
\* when the attribute holds exactly `rows` values; throws and leaves *val
\* untouched when it holds any other number of values.
C24_ParseVectorAttributeOutcomes ==
    (xml # <<>> /\ xml.called) =>
        /\ Asked.null =>
              xml.status = "ok" /\ ~xml.ret /\ xml.val = xml.pre
        /\ (~Asked.null /\ Size(ConvertToDoubles(Asked.value)) = xml.rows) =>
              /\ xml.status = "ok" /\ xml.ret
              /\ Size(xml.val) = xml.rows
              /\ \A i \in Idx(xml.rows) : xml.val[i] = NumberOf[Asked.value[i + 1]]
        /\ (~Asked.null /\ Size(ConvertToDoubles(Asked.value)) # xml.rows) =>
              xml.status = "throw" /\ xml.val = xml.pre
        /\ (~Asked.null /\ AllNumeric(Asked.value)) =>
              (xml.status = "ok" <=> Len(Asked.value) = xml.rows)

\* A present attribute with one value too few made the call throw while the
\* caller's vector held something else than those values.
C24_Witness ==
    /\ xml # <<>> /\ xml.called
    /\ ~Asked.null /\ AllNumeric(Asked.value)
    /\ Len(Asked.value) = xml.rows - 1
    /\ xml.status = "throw"
    /\ xml.pre[0] # NumberOf[Asked.value[1]]

\* ------------------------------------------------------------------------
\* URDF parsing (multibody/parsing/detail_urdf_parser.cc)
\* ------------------------------------------------------------------------

\* Most children a <robot> element has.
MaxChildren == 3

\* std::numeric_limits<double>::infinity(), as a number above every limit
\* a document states.
kInfinity == 1000000

kWorldName == "world"

\* An optional attribute or child element is <<>> when absent and <<x>> when
\* present with content x.
Absent == <<>>
Present(x) == <<x>>
Has(opt) == opt # <<>>
ValueOf(opt) == opt[1]

\* Children of <robot>.  Links are named "a"; joints connect the world to
\* link "a" and are named after their kind.
MaterialNode == [tag |-> "material"]
LinkNode == [tag |-> "link", name |-> "a"]
FrameNode == [tag |-> "frame", name |-> "f", link |-> "a"]
BushingNode == [tag |-> "drake:linear_bushing_rpy"]
LoopJointNode == [tag |-> "loop_joint"]

JointNode(tag, name, type, effort, velocity) ==
    [tag |-> tag, name |-> name, type |-> type, drake_ignore |-> FALSE,
     parent |-> kWorldName, child |-> "a", effort |-> effort, velocity |-> velocity]

JointNodes ==
    {JointNode("joint", "rev", "revolute", Present(e), Absent) : e \in {0 - 1, 0, 5}}
    \cup {JointNode("joint", "rev", "revolute", Present(5), Present(0 - 1)),
          JointNode("joint", "fix", "fixed", Absent, Absent),
          JointNode("drake:joint", "ball", "ball", Absent, Absent)}

\* The text of a <type> element, as its words; a <type/> has no text.
SimpleType == <<"transmission_interface", "SimpleTransmission">>
OtherType == <<"transmission_interface", "DifferentialTransmission">>
NoText == [null |-> TRUE, text |-> <<>>]
Text(t) == [null |-> FALSE, text |-> t]

TransmissionNode(type, actuator, joint) ==
    [tag |-> "transmission", type |-> type, type_attribute |-> Absent,
     actuator |-> actuator, joint |-> joint]

Named(n) == Present([name |-> Present(n)])
Unnamed == Present([name |-> Absent])

TransmissionNodes ==
    {TransmissionNode(Present(Text(SimpleType)), Named("act"), Named(j)) :
        j \in {"rev", "fix", "ball"}}
    \cup {TransmissionNode(Present(Text(OtherType)), Absent, Absent),
          TransmissionNode(Absent, Named("act"), Named("rev")),
          TransmissionNode(Present(NoText), Named("act"), Named("rev")),
          TransmissionNode(Present(Text(SimpleType)), Absent, Named("rev")),
          TransmissionNode(Present(Text(SimpleType)), Unnamed, Named("rev")),
          TransmissionNode(Present(Text(SimpleType)), Named("act"), Absent),
          TransmissionNode(Present(Text(SimpleType)), Named("act"), Unnamed)}

RobotChildren ==
    {MaterialNode, LinkNode, FrameNode, BushingNode, LoopJointNode}
    \cup JointNodes \cup TransmissionNodes

\* What must be unique among the children of one <robot>: the name of a
\* joint, and otherwise the tag.
Slot(node) ==
    IF node.tag \in {"joint", "drake:joint"} THEN <<"joint", node.name>>
    ELSE <<node.tag, "">>

UniqueSlots(children) ==
    \A i, j \in 1..Len(children) : Slot(children[i]) = Slot(children[j]) => i = j

ChildLists ==
    {c \in UNION {[1..n -> RobotChildren] : n \in 0..MaxChildren} : UniqueSlots(c)}

\* A document: no <robot> at all, or one with an optional name attribute.
NoRobot == [robot |-> FALSE, name |-> Absent, children |-> <<>>]
Robot(name, children) == [robot |-> TRUE, name |-> name, children |-> children]

\* The parser's arguments beside the document: the model name given by the
\* caller and whether the plant has a geometry source registered.
ParserSetups ==
    {[model_name |-> "m", name |-> Absent, registered |-> TRUE],
     [model_name |-> "", name |-> Present("r"), registered |-> FALSE],
     [model_name |-> "", name |-> Absent, registered |-> TRUE]}

\* A plant that already holds one model, with a body "a" and a joint "ball".
PriorInstance == 3
InitialPlant ==
    [instances |-> <<"WorldModelInstance", "DefaultModelInstance", "prior">>,
     bodies |-> {[instance |-> PriorInstance, name |-> "a"]},
     joints |-> {[instance |-> PriorInstance, name |-> "ball", num_positions |-> 3]},
     actuators |-> {},
     frames |-> {},
     bushings |-> 0]

\* MultibodyPlant queries and mutators the parser uses.
AddModelInstance(plant, name) == [plant EXCEPT !.instances = Append(@, name)]
HasBodyNamed(plant, name, model_instance) ==
    [instance |-> model_instance, name |-> name] \in plant.bodies
HasJointNamed(plant, name, model_instance) ==
    \E j \in plant.joints : j.instance = model_instance /\ j.name = name
GetJointByName(plant, name, model_instance) ==
    CHOOSE j \in plant.joints : j.instance = model_instance /\ j.name = name
AddJoint(plant, name, model_instance, num_positions) ==
    [plant EXCEPT !.joints = @ \cup
        {[instance |-> model_instance, name |-> name, num_positions |-> num_positions]}]
AddJointActuator(plant, name, joint, effort_limit) ==
    [plant EXCEPT !.actuators = @ \cup
        {[name |-> name, joint |-> joint, effort_limit |-> effort_limit]}]

\* The outcome of one parsing function: how it ended and what it left in the
\* plant and in the effort-limit map.
Outcome(status, plant, joint_effort_limits) ==
    [status |-> status, plant |-> plant, joint_effort_limits |-> joint_effort_limits]

\* GetBodyForElement finds the world body, or a body of this model instance;
\* it throws otherwise.
BodyFound(plant, link_name, model_instance) ==
    link_name = kWorldName \/ HasBodyNamed(plant, link_name, model_instance)

\* ParseBody: a <link> becomes a body of the model instance.
ParseBody(model_instance, node, plant) ==
    IF node.name = kWorldName THEN plant
    ELSE [plant EXCEPT !.bodies = @ \cup {[instance |-> model_instance, name |-> node.name]}]

\* Joint kinds: which the parser knows, which must be written <drake:joint>,
\* which read a <limit>, and how many positions each has.
JointTypes == {"revolute", "continuous", "fixed", "prismatic", "floating",
               "ball", "planar", "universal"}
CustomJointTypes == {"ball", "planar", "universal"}
LimitedJointTypes == {"revolute", "continuous", "prismatic"}
NumPositions(type) ==
    IF type \in LimitedJointTypes THEN 1
    ELSE IF type = "fixed" THEN 0
    ELSE IF type = "universal" THEN 2
    ELSE 3

\* std::map::emplace: an existing key keeps its value.
Emplace(map, key, value) ==
    IF key \in DOMAIN map THEN map
    ELSE [k \in DOMAIN map \cup {key} |-> IF k = key THEN value ELSE map[k]]

\* Joint::set_velocity_limits(-velocity, velocity) rejects a lower limit
\* above the upper one.
SetVelocityLimitsThrows(velocity) == 0 - velocity > velocity

\* A variant that stashes an effort limit only for the joints that read one
\* from a <limit>.
ParseJointStashLimitedOnly(model_instance, joint_effort_limits, node, plant) ==
    LET effort == IF node.type \in LimitedJointTypes /\ Has(node.effort)
                  THEN ValueOf(node.effort) ELSE kInfinity
        velocity == IF node.type \in LimitedJointTypes /\ Has(node.velocity)
                    THEN ValueOf(node.velocity) ELSE kInfinity
        added == AddJoint(plant, node.name, model_instance, NumPositions(node.type))
    IN  IF node.drake_ignore THEN Outcome("ok", plant, joint_effort_limits)
        ELSE IF ~BodyFound(plant, node.parent, model_instance)
                \/ ~BodyFound(plant, node.child, model_instance)
        THEN Outcome("throw", plant, joint_effort_limits)
        ELSE IF node.type \notin JointTypes
        THEN Outcome("throw", plant, joint_effort_limits)
        ELSE IF (node.type \in CustomJointTypes) # (node.tag = "drake:joint")
        THEN Outcome("throw", plant, joint_effort_limits)
        ELSE IF node.type = "floating"
        THEN Outcome("ok", plant, joint_effort_limits)
        ELSE IF node.type \in LimitedJointTypes /\ SetVelocityLimitsThrows(velocity)
        THEN Outcome("throw", added, joint_effort_limits)
        ELSE IF node.type \in LimitedJointTypes
        THEN Outcome("ok", added, Emplace(joint_effort_limits, node.name, effort))
        ELSE Outcome("ok", added, joint_effort_limits)

\* ParseJoint(model_instance, joint_effort_limits, node, plant).
ParseJoint(model_instance, joint_effort_limits, node, plant) ==
    LET effort == IF node.type \in LimitedJointTypes /\ Has(node.effort)
                  THEN ValueOf(node.effort) ELSE kInfinity
        velocity == IF node.type \in LimitedJointTypes /\ Has(node.velocity)
                    THEN ValueOf(node.velocity) ELSE kInfinity
        added == AddJoint(plant, node.name, model_instance, NumPositions(node.type))
    IN  IF node.drake_ignore THEN Outcome("ok", plant, joint_effort_limits)
        ELSE IF ~BodyFound(plant, node.parent, model_instance)
                \/ ~BodyFound(plant, node.child, model_instance)
        THEN Outcome("throw", plant, joint_effort_limits)
        ELSE IF node.type \notin JointTypes
        THEN Outcome("throw", plant, joint_effort_limits)
        ELSE IF (node.type \in CustomJointTypes) # (node.tag = "drake:joint")
        THEN Outcome("throw", plant, joint_effort_limits)
        ELSE IF node.type = "floating"
        THEN Outcome("ok", plant, Emplace(joint_effort_limits, node.name, effort))
        ELSE IF node.type \in LimitedJointTypes /\ SetVelocityLimitsThrows(velocity)
        THEN Outcome("throw", added, joint_effort_limits)
        ELSE Outcome("ok", added, Emplace(joint_effort_limits, node.name, effort))

\* The transmission type: the text of <type>, else the type attribute.
TransmissionType(node) ==
    IF Has(node.type) THEN ValueOf(node.type).text ELSE ValueOf(node.type_attribute)

\* A variant that lets a zero effort limit through.
ParseTransmissionZeroEffort(model_instance, joint_effort_limits, node, plant, ub) ==
    LET skip == Outcome("ok", plant, joint_effort_limits)
        throw == Outcome("throw", plant, joint_effort_limits)
        joint_name == ValueOf(ValueOf(node.joint).name)
        joint == GetJointByName(plant, joint_name, model_instance)
        effort == joint_effort_limits[joint_name]
    IN  IF ~Has(node.type) /\ ~Has(node.type_attribute) THEN throw
        ELSE IF Has(node.type) /\ ValueOf(node.type).null /\ ub = "segv"
        THEN Outcome("segv", plant, joint_effort_limits)
        ELSE IF ~Contains(TransmissionType(node), <<"SimpleTransmission">>) THEN skip
        ELSE IF ~Has(node.actuator) THEN throw
        ELSE IF ~Has(ValueOf(node.actuator).name) THEN throw
        ELSE IF ~Has(node.joint) THEN throw
        ELSE IF ~Has(ValueOf(node.joint).name) THEN throw
        ELSE IF ~HasJointNamed(plant, joint_name, model_instance) THEN throw
        ELSE IF joint.num_positions = 0 THEN skip
        ELSE IF joint_name \notin DOMAIN joint_effort_limits
        THEN Outcome("abort", plant, joint_effort_limits)
        ELSE IF effort < 0 THEN throw
        ELSE Outcome("ok",
                     AddJointActuator(plant, ValueOf(ValueOf(node.actuator).name),
                                      joint, effort),
                     joint_effort_limits)

\* ParseTransmission(model_instance, joint_effort_limits, node, plant).  The
\* documents here carry no drake:rotor_inertia and no drake:gear_ratio.
\* Reading the text of an empty <type/> assigns a null pointer to a string,
\* which is undefined: the process crashes, or the type reads as empty.
ParseTransmission(model_instance, joint_effort_limits, node, plant, ub) ==
    LET skip == Outcome("ok", plant, joint_effort_limits)
        throw == Outcome("throw", plant, joint_effort_limits)
        joint_name == ValueOf(ValueOf(node.joint).name)
        joint == GetJointByName(plant, joint_name, model_instance)
        effort == joint_effort_limits[joint_name]
    IN  IF ~Has(node.type) /\ ~Has(node.type_attribute) THEN throw
        ELSE IF Has(node.type) /\ ValueOf(node.type).null /\ ub = "segv"
        THEN Outcome("segv", plant, joint_effort_limits)
        ELSE IF ~Contains(TransmissionType(node), <<"SimpleTransmission">>) THEN skip
        ELSE IF ~Has(node.actuator) THEN throw
        ELSE IF ~Has(ValueOf(node.actuator).name) THEN throw
        ELSE IF ~Has(node.joint) THEN throw
        ELSE IF ~Has(ValueOf(node.joint).name) THEN throw
        ELSE IF ~HasJointNamed(plant, joint_name, model_instance) THEN throw
        ELSE IF joint.num_positions = 0 THEN skip
        ELSE IF joint_name \notin DOMAIN joint_effort_limits
        THEN Outcome("abort", plant, joint_effort_limits)
        ELSE IF effort < 0 THEN throw
        ELSE IF effort <= 0 THEN skip
        ELSE Outcome("ok",
                     AddJointActuator(plant, ValueOf(ValueOf(node.actuator).name),
                                      joint, effort),
                     joint_effort_limits)

\* ParseFrame: a <frame> becomes a frame on its link, which must exist.
ParseFrame(model_instance, joint_effort_limits, node, plant) ==
    IF ~BodyFound(plant, node.link, model_instance)
    THEN Outcome("throw", plant, joint_effort_limits)
    ELSE Outcome("ok",
                 [plant EXCEPT !.frames = @ \cup
                     {[instance |-> model_instance, name |-> node.name]}],
                 joint_effort_limits)

\* ParseBushing hands the element to ParseLinearBushingRollPitchYaw.
ParseBushing(model_instance, node, plant) == [plant EXCEPT !.bushings = @ + 1]

\* The order in which UrdfParser::Parse goes over the children of <robot>.
\* A variant that reads the transmissions before the joints, and one that
\* looks for loop joints only after the frames and bushings.
PhasesTransmissionsFirst ==
    <<"material", "link", "filters", "transmission", "joint", "loop_joint",
      "frame", "drake:linear_bushing_rpy", "return">>

PhasesLoopJointLast ==
    <<"material", "link", "filters", "joint", "transmission",
      "frame", "drake:linear_bushing_rpy", "loop_joint", "return">>

Phases ==
    <<"material", "link", "filters", "joint", "transmission", "loop_joint",
      "frame", "drake:linear_bushing_rpy", "return">>

PhaseIndex(p) == CHOOSE k \in 1..Len(Phases) : Phases[k] = p

\* The element names a phase stops at.
PhaseTags(p) == IF p = "joint" THEN {"joint", "drake:joint"} ELSE {p}

\* FirstChildElement / NextSiblingElement: the first child at or after
\* position from with one of the names, or 0 for a null pointer.
NextElement(children, tags, from) ==
    LET found == {i \in from..Len(children) : children[i].tag \in tags}
    IN  IF found = {} THEN 0 ELSE CHOOSE i \in found : \A j \in found : i <= j

\* Where Parse stands next: the first phase from the k-th on that has
\* something to do, and the child it stops at.
RECURSIVE Seek(_, _, _, _)
Seek(children, registered, k, from) ==
    LET p == Phases[k]
        i == NextElement(children, PhaseTags(p), from)
    IN  IF p = "return" THEN [pc |-> p, at |-> 0]
        ELSE IF p = "filters"
        THEN (IF registered THEN [pc |-> p, at |-> 0]
              ELSE Seek(children, registered, k + 1, 1))
        ELSE IF i # 0 THEN [pc |-> p, at |-> i]
        ELSE Seek(children, registered, k + 1, 1)

\* TinyXml2Diagnostic::Error hands the policy a detail made of the location
\* and the message; the policy here records it and returns.
MakeDetail(location, message) == [location |-> location, message |-> message]
Error(errors, location, message) == Append(errors, MakeDetail(location, message))

\* parsing::PrefixName with no parent model leaves the name as it is.
PrefixName(prefix, name) == IF prefix = "" THEN name ELSE <<prefix, name>>

InitUrdf ==
    /\ FemIdle /\ JacoIdle /\ XmlIdle /\ UriIdle
    /\ \E setup \in ParserSetups, children \in ChildLists, robot \in BOOLEAN :
          /\ ~robot => children = <<>>
          /\ urdf = [doc |-> IF robot THEN Robot(setup.name, children) ELSE NoRobot,
                     model_name_ |-> setup.model_name,
                     registered |-> setup.registered,
                     plant |-> InitialPlant,
                     joint_effort_limits |-> <<>>,
                     model_instance_ |-> 0,
                     pc |-> "start", at |-> 0,
                     log |-> <<>>, errors |-> <<>>,
                     status |-> "running", ret |-> Absent,
                     last |-> [pc |-> "start", at |-> 0, plant |-> InitialPlant,
                               joint_effort_limits |-> <<>>]]

UrdfAt(p) == urdf # <<>> /\ urdf.status = "running" /\ urdf.pc = p

\* The child element the current loop stands on.
Node == urdf.doc.children[urdf.at]

\* Parse ends: with a value, without one, or by an exception or a crash.
Ended(status, ret) == [urdf EXCEPT !.status = status, !.ret = ret, !.pc = "done"]

\* One iteration is over: the outcome is kept, and Parse moves to the next
\* sibling, the next phase, or out through the exception.
Iterated(outcome) ==
    LET k == PhaseIndex(urdf.pc)
        next == IF urdf.pc = "filters"
                THEN Seek(urdf.doc.children, urdf.registered, k + 1, 1)
                ELSE Seek(urdf.doc.children, urdf.registered, k, urdf.at + 1)
        ok == outcome.status = "ok"
    IN  [urdf EXCEPT !.plant = outcome.plant,
                     !.joint_effort_limits = outcome.joint_effort_limits,
                     !.log = Append(@, [pc |-> urdf.pc, at |-> urdf.at]),
                     !.status = IF ok THEN "running" ELSE outcome.status,
                     !.pc = IF ok THEN next.pc ELSE "done",
                     !.at = IF ok THEN next.at ELSE urdf.at,
                     !.last = [pc |-> urdf.pc, at |-> urdf.at, plant |-> urdf.plant,
                               joint_effort_limits |-> urdf.joint_effort_limits]]

Unchanged(plant) == Outcome("ok", plant, urdf.joint_effort_limits)

UrdfFrame == UNCHANGED <<femVars, parVars, jacoVars, xml, uri>>

\* Parse up to the first loop: the robot element, the model name and the
\* new model instance.
ParseBegin ==
    /\ UrdfAt("start")
    /\ LET doc == urdf.doc
           model_name == IF urdf.model_name_ # "" THEN urdf.model_name_
                         ELSE IF Has(doc.name) THEN ValueOf(doc.name) ELSE ""
           plant == AddModelInstance(urdf.plant, PrefixName("", model_name))
           first == Seek(doc.children, urdf.registered, 1, 1)
       IN  IF ~doc.robot
           THEN urdf' = [Ended("returned", Absent) EXCEPT !.errors =
                            Error(@, "document", "URDF does not contain a robot tag.")]
           ELSE IF urdf.model_name_ = "" /\ ~Has(doc.name)
           THEN urdf' = [Ended("returned", Absent) EXCEPT !.errors =
                            Error(@, "robot", "Your robot must have a name attribute or a model name must be specified.")]
           ELSE urdf' = [urdf EXCEPT !.plant = plant,
                                     !.model_instance_ = Len(plant.instances),
                                     !.pc = first.pc, !.at = first.at]
    /\ UrdfFrame

StepParseMaterial ==
    /\ UrdfAt("material")
    /\ urdf' = Iterated(Unchanged(urdf.plant))
    /\ UrdfFrame

StepParseBody ==
    /\ UrdfAt("link")
    /\ urdf' = Iterated(Unchanged(ParseBody(urdf.model_instance_, Node, urdf.plant)))
    /\ UrdfFrame

StepParseCollisionFilterGroup ==
    /\ UrdfAt("filters")
    /\ urdf' = Iterated(Unchanged(urdf.plant))
    /\ UrdfFrame

StepParseJoint ==
    /\ UrdfAt("joint")
    /\ urdf' = Iterated(ParseJoint(urdf.model_instance_, urdf.joint_effort_limits,
                                   Node, urdf.plant))
    /\ UrdfFrame

StepParseTransmission ==
    /\ UrdfAt("transmission")
    /\ \E ub \in UBOutcomes :
          urdf' = Iterated(ParseTransmission(urdf.model_instance_,
                                             urdf.joint_effort_limits,
                                             Node, urdf.plant, ub))
    /\ UrdfFrame

\* A <loop_joint> child: an error, and Parse returns the model instance.
StepLoopJoint ==
    /\ UrdfAt("loop_joint")
    /\ urdf' = [Ended("returned", Present(urdf.model_instance_)) EXCEPT !.errors =
                   Error(@, "robot", "loop joints are not supported in MultibodyPlant")]
    /\ UrdfFrame

StepParseFrame ==
    /\ UrdfAt("frame")
    /\ urdf' = Iterated(ParseFrame(urdf.model_instance_, urdf.joint_effort_limits,
                                   Node, urdf.plant))
    /\ UrdfFrame

StepParseBushing ==
    /\ UrdfAt("drake:linear_bushing_rpy")
    /\ urdf' = Iterated(Unchanged(ParseBushing(urdf.model_instance_, Node, urdf.plant)))
    /\ UrdfFrame

ParseReturn ==
    /\ UrdfAt("return")
    /\ urdf' = Ended("returned", Present(urdf.model_instance_))
    /\ UrdfFrame

NextUrdf ==
    \/ ParseBegin
    \/ StepParseMaterial
    \/ StepParseBody
    \/ StepParseCollisionFilterGroup
    \/ StepParseJoint
    \/ StepParseTransmission
    \/ StepLoopJoint
    \/ StepParseFrame
    \/ StepParseBushing
    \/ ParseReturn

SpecUrdf == InitUrdf /\ [][NextUrdf]_vars

\* The place of each phase in the order the documentation of Parse gives,
\* and the phase an element name belongs to (0 for elements no phase reads).
Rank(p) ==
    IF p = "material" THEN 1
    ELSE IF p = "link" THEN 2
    ELSE IF p = "filters" THEN 3
    ELSE IF p = "joint" THEN 4
    ELSE IF p = "transmission" THEN 5
    ELSE IF p = "frame" THEN 6
    ELSE IF p = "drake:linear_bushing_rpy" THEN 7
    ELSE 0

RankOfTag(tag) == IF tag = "drake:joint" THEN Rank("joint") ELSE Rank(tag)

\* The k-th entry of the log reads a child, and that child is the c-th.
Reads(k, c) == urdf.log[k].pc # "filters" /\ urdf.log[k].at = c

\* C25: Parse reads the children of <robot> in fixed phases whatever their
\* order in the document: materials, links, collision filter groups (only
\* with a geometry source registered), joints and drake:joints together in
\* document order, transmissions, frames, bushings; by the time an element
\* is read, every element of an earlier phase and every earlier element of
\* its own phase has been read.
C25_FixedPhases ==
    urdf # <<>> =>
        LET log == urdf.log
            children == urdf.doc.children
        IN  /\ \A i, j \in 1..Len(log) : i < j =>
                  \/ Rank(log[i].pc) < Rank(log[j].pc)
                  \/ Rank(log[i].pc) = Rank(log[j].pc) /\ log[i].at < log[j].at
            /\ \A k \in 1..Len(log) :
                  /\ log[k].pc = "filters" => urdf.registered
                  /\ log[k].pc # "filters" =>
                        RankOfTag(children[log[k].at].tag) = Rank(log[k].pc)
                  /\ (urdf.registered /\ Rank(log[k].pc) > Rank("filters")) =>
                        \E m \in 1..(k - 1) : log[m].pc = "filters"
                  /\ \A c \in 1..Len(children) :
                        LET r == RankOfTag(children[c].tag)
                        IN  (/\ r # 0
                             /\ \/ r < Rank(log[k].pc)
                                \/ r = Rank(log[k].pc) /\ c < log[k].at) =>
                                \E m \in 1..(k - 1) : Reads(m, c)

\* A document with a transmission before a joint before a link was read to
\* the end: link, joint, transmission.
C25_Witness ==
    /\ urdf # <<>> /\ urdf.status = "returned"
    /\ Len(urdf.doc.children) = 3
    /\ urdf.doc.children[1].tag = "transmission"
    /\ urdf.doc.children[2].tag \in {"joint", "drake:joint"}
    /\ urdf.doc.children[3].tag = "link"
    /\ \E i, j, k \in 1..Len(urdf.log) :
          i < j /\ j < k /\ Reads(i, 3) /\ Reads(j, 2) /\ Reads(k, 1)

\* The last iteration read a <transmission>; what it read, the plant and
\* the effort limits it started from, and the actuators it added.
AfterTransmission == urdf # <<>> /\ urdf.last.pc = "transmission"
LastNode == urdf.doc.children[urdf.last.at]
ActuatorsAdded == urdf.plant.actuators \ urdf.last.plant.actuators
NoError == urdf.status \in {"running", "returned"}
Raised == urdf.status = "throw"

\* The conditions of a transmission, each meaningful once the ones before
\* it hold: its type is stated, names SimpleTransmission, both elements
\* are there and named, the joint is one of this model instance, it has
\* positions, and its recorded effort limit is negative, zero or positive.
TypeStated ==
    \/ Has(LastNode.type) /\ ~ValueOf(LastNode.type).null
    \/ ~Has(LastNode.type) /\ Has(LastNode.type_attribute)
TypeMissing == ~Has(LastNode.type) /\ ~Has(LastNode.type_attribute)
IsSimple ==
    /\ TypeStated
    /\ \E k \in 1..Len(TransmissionType(LastNode)) :
          TransmissionType(LastNode)[k] = "SimpleTransmission"
BothNamed ==
    /\ Has(LastNode.actuator) /\ Has(ValueOf(LastNode.actuator).name)
    /\ Has(LastNode.joint) /\ Has(ValueOf(LastNode.joint).name)
NamedJoints ==
    {j \in urdf.last.plant.joints :
        /\ j.instance = urdf.model_instance_
        /\ j.name = ValueOf(ValueOf(LastNode.joint).name)}
JointExists == BothNamed /\ NamedJoints # {}
HasPositions == JointExists /\ \A j \in NamedJoints : j.num_positions >= 1
EffortRecorded ==
    /\ HasPositions
    /\ ValueOf(ValueOf(LastNode.joint).name) \in DOMAIN urdf.last.joint_effort_limits
RecordedEffort == urdf.last.joint_effort_limits[ValueOf(ValueOf(LastNode.joint).name)]

\* C26: ParseTransmission adds a joint actuator exactly when the type
\* contains SimpleTransmission, the actuator and joint elements are there
\* with names, the joint exists in this model instance, has a position and
\* a strictly positive recorded effort limit; a non-simple type, a fixed
\* joint or a zero effort limit skips the transmission silently; a missing
\* element or name, an unknown joint or a negative effort limit raises an
\* error; in neither case is an actuator added.
C26_ActuatorExactlyWhen ==
    AfterTransmission =>
        /\ (ActuatorsAdded # {}) <=>
              (IsSimple /\ EffortRecorded /\ RecordedEffort > 0)
        /\ ActuatorsAdded # {} =>
              /\ NoError
              /\ ActuatorsAdded =
                    {[name |-> ValueOf(ValueOf(LastNode.actuator).name),
                      joint |-> j, effort_limit |-> RecordedEffort] : j \in NamedJoints}
        /\ (TypeStated /\ ~IsSimple) => NoError
        /\ (IsSimple /\ JointExists /\ ~HasPositions) => NoError
        /\ (IsSimple /\ EffortRecorded /\ RecordedEffort = 0) => NoError
        /\ TypeMissing => Raised
        /\ (IsSimple /\ ~BothNamed) => Raised
        /\ (IsSimple /\ BothNamed /\ ~JointExists) => Raised
        /\ (IsSimple /\ EffortRecorded /\ RecordedEffort < 0) => Raised

\* A transmission naming a joint whose recorded effort limit is zero was
\* skipped without an error.
C26_Witness ==
    /\ AfterTransmission
    /\ IsSimple /\ EffortRecorded /\ RecordedEffort = 0
    /\ NoError /\ ActuatorsAdded = {}

\* The joints of the model instance this Parse created.
OwnJoints == {j \in urdf.plant.joints : j.instance = urdf.model_instance_}

\* C27: whenever ParseTransmission comes to look up the effort limit (the
\* named joint exists in the model instance of this Parse and has
\* positions), the joint's name is in joint_effort_limits, so the
\* DRAKE_DEMAND on the lookup never fails: when a transmission is about to
\* be read, every joint of the model instance has its entry.
C27_EffortLimitRecorded ==
    urdf # <<>> =>
        /\ urdf.status # "abort"
        /\ (AfterTransmission /\ IsSimple /\ HasPositions) => EffortRecorded
        /\ (urdf.status = "running" /\ urdf.pc = "transmission") =>
              \A j \in OwnJoints : j.name \in DOMAIN urdf.joint_effort_limits

\* A transmission on a ball joint, which states no effort limit, came to
\* the lookup and got its actuator with the default limit.
C27_Witness ==
    /\ AfterTransmission /\ IsSimple /\ HasPositions
    /\ ValueOf(ValueOf(LastNode.joint).name) = "ball"
    /\ \E a \in ActuatorsAdded : a.effort_limit = kInfinity

\* Parse is over; the document has a <loop_joint>; neither the caller nor
\* the robot element gives the model a name.
ParseOver == urdf # <<>> /\ urdf.pc = "done"
HasLoopJoint == \E i \in 1..Len(urdf.doc.children) : urdf.doc.children[i].tag = "loop_joint"
Nameless == urdf.model_name_ = "" /\ ~Has(urdf.doc.name)

\* One Error diagnostic, no value, and the plant as it was.
RefusedAtStart ==
    /\ Len(urdf.errors) = 1
    /\ urdf.ret = Absent
    /\ urdf.plant = InitialPlant

\* One Error diagnostic and the new model instance returned; what was read
\* before is in the plant, and no frame and no bushing was read.
StoppedAtLoopJoint ==
    /\ Len(urdf.errors) = 1
    /\ urdf.errors[1].message = "loop joints are not supported in MultibodyPlant"
    /\ urdf.ret = Present(urdf.model_instance_)
    /\ urdf.model_instance_ = Len(InitialPlant.instances) + 1
    /\ Len(urdf.plant.instances) = urdf.model_instance_
    /\ \A k \in 1..Len(urdf.log) :
          LET node == urdf.doc.children[urdf.log[k].at]
          IN  /\ urdf.log[k].pc \notin {"frame", "drake:linear_bushing_rpy"}
              /\ urdf.log[k].pc = "link" =>
                    HasBodyNamed(urdf.plant, node.name, urdf.model_instance_)
              /\ urdf.log[k].pc = "joint" =>
                    HasJointNamed(urdf.plant, node.name, urdf.model_instance_)
    /\ \A i \in 1..Len(urdf.doc.children) :
          urdf.doc.children[i].tag \in {"link", "joint", "drake:joint", "transmission"} =>
              \E k \in 1..Len(urdf.log) : Reads(k, i)
    /\ urdf.plant.frames = InitialPlant.frames
    /\ urdf.plant.bushings = InitialPlant.bushings

\* C28 as stated: without a robot element, or without any name for the
\* model, Parse reports an Error, returns no value and adds no model
\* instance; with a <loop_joint> child it reports an Error and returns the
\* model instance with its links, joints and actuators but no frame or
\* bushing read.
C28_ErrorOutcomes ==
    ParseOver =>
        /\ (~urdf.doc.robot \/ Nameless) => RefusedAtStart
        /\ (urdf.doc.robot /\ ~Nameless /\ HasLoopJoint) => StoppedAtLoopJoint

\* C28: the same, the loop-joint outcome being that of a Parse which no
\* exception from a material, link, joint or transmission has ended before.
C28_ErrorOutcomesUnlessThrown ==
    ParseOver =>
        /\ (~urdf.doc.robot \/ Nameless) => RefusedAtStart /\ urdf.status = "returned"
        /\ (urdf.doc.robot /\ ~Nameless /\ HasLoopJoint /\ urdf.status = "returned") =>
              StoppedAtLoopJoint
        /\ (urdf.doc.robot /\ ~Nameless /\ HasLoopJoint /\ urdf.status # "returned") =>
              urdf.errors = <<>> /\ urdf.ret = Absent

\* A document with a frame, a link and a loop joint: the link is in the
\* plant, the frame is not, and the model instance is returned.
C28_Witness ==
    /\ ParseOver /\ urdf.status = "returned" /\ HasLoopJoint
    /\ \E i \in 1..Len(urdf.doc.children) : urdf.doc.children[i].tag = "frame"
    /\ HasBodyNamed(urdf.plant, "a", urdf.model_instance_)
    /\ urdf.plant.frames = {}
    /\ urdf.ret = Present(urdf.model_instance_)

\* ------------------------------------------------------------------------
\* URI resolution (multibody/parsing/detail_path_utils.cc)
\* ------------------------------------------------------------------------

\* Most components in the path part of a URI or in a bare filename.
MaxPathLen == 2

\* A string is the sequence of its pieces: "/", ":" and words.  Every word
\* here but "HTTP" is made of the characters [a-z0-9+.-].
Words == {"file", "model", "package", "http", "HTTP", "pkg", "nopkg", "a", ".", ".."}
InSchemeClass(t) == t \in Words \ {"HTTP"}

\* The positions of s from k on that hold (or do not hold) a "/".
SlashesFrom(s, k) == {i \in k..Len(s) : s[i] = "/"}
OthersFrom(s, k) == {i \in k..Len(s) : s[i] # "/"}
Least(S) == CHOOSE i \in S : \A j \in S : i <= j

\* std::regex_match(uri, "^([a-z0-9+.-]+)://([^/]*)/+(.*)"): whether the
\* string is a URI, and its scheme, package and path.
UriMatch(s) ==
    LET colons == {k \in 1..Len(s) : s[k] = ":"}
        c == Least(colons)
        slash == Least(SlashesFrom(s, c + 3))
        rest == OthersFrom(s, slash)
        matched ==
            /\ colons # {}
            /\ c > 1
            /\ \A i \in 1..(c - 1) : InSchemeClass(s[i])
            /\ Len(s) >= c + 2 /\ s[c + 1] = "/" /\ s[c + 2] = "/"
            /\ SlashesFrom(s, c + 3) # {}
    IN  IF ~matched THEN [matched |-> FALSE]
        ELSE [matched |-> TRUE,
              scheme |-> SubSeq(s, 1, c - 1),
              package |-> SubSeq(s, c + 3, slash - 1),
              path |-> IF rest = {} THEN <<>> ELSE SubSeq(s, Least(rest), Len(s))]

\* filesystem::path(string): absolute when it starts with "/", and the
\* components between the slashes.
RECURSIVE Components(_)
Components(s) ==
    IF s = <<>> THEN <<>>
    ELSE IF Head(s) = "/" THEN Components(Tail(s))
    ELSE LET stop == IF SlashesFrom(s, 1) = {} THEN Len(s) + 1 ELSE Least(SlashesFrom(s, 1))
         IN  <<SubSeq(s, 1, stop - 1)>> \o Components(SubSeq(s, stop, Len(s)))

Path(s) == [absolute |-> s # <<>> /\ Head(s) = "/", parts |-> Components(s)]
is_absolute(p) == p.absolute

\* operator/ and append: an absolute right side replaces the left.
PathAppend(p, q) ==
    IF is_absolute(q) THEN q ELSE [absolute |-> p.absolute, parts |-> p.parts \o q.parts]

\* lexically_normal: "." dropped, "name/.." cancelled, ".." at the root
\* dropped.
RECURSIVE Normalize(_, _, _)
Normalize(absolute, done, parts) ==
    IF parts = <<>> THEN done
    ELSE LET part == Head(parts)
             more == Tail(parts)
         IN  IF part = <<".">> THEN Normalize(absolute, done, more)
             ELSE IF part # <<"..">> THEN Normalize(absolute, Append(done, part), more)
             ELSE IF done # <<>> /\ done[Len(done)] # <<"..">>
             THEN Normalize(absolute, SubSeq(done, 1, Len(done) - 1), more)
             ELSE IF absolute THEN Normalize(absolute, done, more)
             ELSE Normalize(absolute, Append(done, part), more)

lexically_normal(p) == [absolute |-> p.absolute, parts |-> Normalize(p.absolute, <<>>, p.parts)]

\* path::string().
RECURSIVE Joined(_)
Joined(parts) ==
    IF parts = <<>> THEN <<>>
    ELSE IF Len(parts) = 1 THEN Head(parts)
    ELSE Head(parts) \o <<"/">> \o Joined(Tail(parts))

PathString(p) == (IF p.absolute THEN <<"/">> ELSE <<>>) \o Joined(p.parts)

\* The working directory, and the file systems a call may find: sets of the
\* absolute normalized paths that exist.
current_path == Path(<<"/", "cwd">>)
Dir(names) == [i \in 1..Len(names) |-> <<names[i]>>]
Directories == {Dir(<<>>), Dir(<<"pkgs">>), Dir(<<"pkgs", "pkg">>), Dir(<<"work">>),
                Dir(<<"cwd">>), Dir(<<"cwd", "rel">>)}
FileSystems ==
    {Directories,
     Directories \cup {Dir(<<"a">>), Dir(<<"pkgs", "pkg", "a">>), Dir(<<"work", "a">>),
                       Dir(<<"cwd", "rel", "a">>),
                       <<<<"work">>, <<"package", ":">>, <<"nopkg">>>>}}

\* filesystem::exists.
exists(fs, p) ==
    IF p.absolute THEN p.parts \in fs
    ELSE lexically_normal(PathAppend(current_path, p)).parts \in fs

\* The package map, and GetPackagePath: the path of a known package, else
\* nothing.
PackageMap == [pkg |-> <<"/", "pkgs", "/", "pkg">>]
GetPackagePath(package, package_map) ==
    IF Len(package) = 1 /\ package[1] \in DOMAIN package_map
    THEN Present(package_map[package[1]])
    ELSE Absent

\* A variant that takes an unsupported scheme for file.
ResolveUriAnyScheme(str, package_map, root_dir, fs) ==
    LET match == UriMatch(str)
        package_path == GetPackagePath(match.package, package_map)
        filename == Path(str)
        unresolved == [failed |-> TRUE, result |-> Path(<<>>)]
        resolved ==
            IF match.matched
            THEN IF match.scheme \in {<<"model">>, <<"package">>}
                 THEN IF ~Has(package_path) THEN unresolved
                      ELSE [failed |-> FALSE,
                            result |-> PathAppend(Path(ValueOf(package_path)), Path(match.path))]
                 ELSE [failed |-> FALSE, result |-> Path(<<"/">> \o match.path)]
            ELSE IF root_dir = <<>> THEN unresolved
            ELSE IF is_absolute(filename) THEN [failed |-> FALSE, result |-> filename]
            ELSE IF is_absolute(Path(root_dir))
            THEN [failed |-> FALSE, result |-> PathAppend(Path(root_dir), filename)]
            ELSE [failed |-> FALSE,
                  result |-> PathAppend(PathAppend(current_path, Path(root_dir)), filename)]
        result == lexically_normal(resolved.result)
    IN  IF resolved.failed THEN <<>>
        ELSE IF ~exists(fs, result) THEN <<>>
        ELSE PathString(result)

\* ResolveUri(uri, package_map, root_dir), on the file system fs.
ResolveUri(str, package_map, root_dir, fs) ==
    LET match == UriMatch(str)
        package_path == GetPackagePath(match.package, package_map)
        filename == Path(str)
        unresolved == [failed |-> TRUE, result |-> Path(<<>>)]
        resolved ==
            IF match.matched
            THEN IF match.scheme = <<"file">>
                 THEN [failed |-> FALSE, result |-> Path(<<"/">> \o match.path)]
                 ELSE IF match.scheme \in {<<"model">>, <<"package">>}
                 THEN IF ~Has(package_path) THEN unresolved
                      ELSE [failed |-> FALSE,
                            result |-> PathAppend(Path(ValueOf(package_path)), Path(match.path))]
                 ELSE unresolved
            ELSE IF root_dir = <<>> THEN unresolved
            ELSE IF is_absolute(filename) THEN [failed |-> FALSE, result |-> filename]
            ELSE IF is_absolute(Path(root_dir))
            THEN [failed |-> FALSE, result |-> PathAppend(Path(root_dir), filename)]
            ELSE [failed |-> FALSE,
                  result |-> PathAppend(PathAppend(current_path, Path(root_dir)), filename)]
        result == lexically_normal(resolved.result)
    IN  IF resolved.failed THEN <<>>
        ELSE IF ~exists(fs, result) THEN <<>>
        ELSE PathString(result)

\* The strings a caller passes: URIs of every scheme, with a known, an
\* unknown or an empty package and one or two slashes before the path;
\* the same without the slash and the path; relative and absolute
\* filenames.
PathWords == {"a", ".", ".."}
PathStrings == {Joined(Dir(w)) : w \in UNION {[1..n -> PathWords] : n \in 0..MaxPathLen}}
Schemes == {"file", "model", "package", "http", "HTTP"}
Packages == {<<"pkg">>, <<"nopkg">>, <<>>}
UriStrings ==
    {<<s, ":", "/", "/">> \o pkg \o slashes \o path :
        s \in Schemes, pkg \in Packages, slashes \in {<<"/">>, <<"/", "/">>},
        path \in PathStrings}
    \cup {<<s, ":", "/", "/">> \o pkg : s \in Schemes, pkg \in Packages}
    \cup (PathStrings \ {<<>>})
    \cup {<<"/">> \o path : path \in PathStrings}

RootDirs == {<<>>, <<"/", "work">>, <<"rel">>}

InitUri ==
    /\ FemIdle /\ JacoIdle /\ XmlIdle /\ UrdfIdle
    /\ \E str \in UriStrings, root_dir \in RootDirs, fs \in FileSystems :
          uri = [uri |-> str, package_map |-> PackageMap, root_dir |-> root_dir,
                 fs |-> fs, called |-> FALSE, ret |-> <<>>]

\* A parser resolves the string.
CallResolveUri ==
    /\ uri # <<>> /\ ~uri.called
    /\ uri' = [uri EXCEPT !.called = TRUE,
                          !.ret = ResolveUri(uri.uri, uri.package_map, uri.root_dir, uri.fs)]
    /\ UNCHANGED <<femVars, parVars, jacoVars, xml, urdf>>

NextUri == CallResolveUri

SpecUri == InitUri /\ [][NextUri]_vars

\* The string passed is a URI (scheme://package/path), and its pieces.
Resolved == uri # <<>> /\ uri.called
IsUri == UriMatch(uri.uri).matched
UriScheme == UriMatch(uri.uri).scheme
UriPackage == UriMatch(uri.uri).package

\* No "." component, and ".." only at the front of a relative path.
IsNormal(p) ==
    \A i \in 1..Len(p.parts) :
        /\ p.parts[i] # <<".">>
        /\ p.parts[i] = <<"..">> =>
              ~p.absolute /\ \A j \in 1..(i - 1) : p.parts[j] = <<"..">>

\* C29: ResolveUri returns the empty string for a URI whose scheme is not
\* file, model or package, for a model or package URI whose package the
\* map does not hold, and for a bare filename with an empty root_dir; a
\* result that is not empty is a lexically normal path that exists, so a
\* string that resolves to no existing path gives the empty string too.
C29_EmptyOnFailure ==
    Resolved =>
        /\ (IsUri /\ UriScheme \notin {<<"file">>, <<"model">>, <<"package">>}) =>
              uri.ret = <<>>
        /\ (/\ IsUri /\ UriScheme \in {<<"model">>, <<"package">>}
            /\ ~(Len(UriPackage) = 1 /\ UriPackage[1] \in DOMAIN uri.package_map)) =>
              uri.ret = <<>>
        /\ (~IsUri /\ uri.root_dir = <<>>) => uri.ret = <<>>
        /\ uri.ret # <<>> =>
              /\ PathString(Path(uri.ret)) = uri.ret
              /\ IsNormal(Path(uri.ret))
              /\ Path(uri.ret).absolute
              /\ Path(uri.ret).parts \in uri.fs
        /\ (/\ IsUri /\ UriScheme = <<"file">>
            /\ lexically_normal(Path(<<"/">> \o UriMatch(uri.uri).path)).parts \notin uri.fs) =>
              uri.ret = <<>>

\* A model:// URI naming a package the map does not hold came back empty,
\* on a file system where the same path under the known package exists.
C29_Witness ==
    /\ Resolved /\ IsUri
    /\ UriScheme = <<"model">> /\ UriPackage = <<"nopkg">>
    /\ UriMatch(uri.uri).path = <<"a">>
    /\ Dir(<<"pkgs", "pkg", "a">>) \in uri.fs
    /\ uri.ret = <<>>
====
